---- MODULE Spec2Model ----
(***************************************************************************)
(* Model of the spatiotemporal matching pipeline of gun_violence.modeling: *)
(* the radius query (knn_distance), the per-homicide matcher               *)
(* (_get_sale_groups_by_homicide) and the flag builder                     *)
(* (add_spacetime_flags) of src/gun_violence/modeling/causality.py.        *)
(*                                                                         *)
(* Units.  Coordinates are feet.  Times are seconds since the epoch.       *)
(* Band boundaries (the `distances` argument, miles in the source) are     *)
(* counted in twentieths of a mile, so that 0.05 mi is the integer 1 and   *)
(* d * FT_PER_MILE is the integer d * 264.  Euclidean distances are kept   *)
(* as their squares; every comparison D >= a, D < b, D <= r of the source  *)
(* is made on the squares, which is exact.                                 *)
(***************************************************************************)
EXTENDS Integers, Sequences, FiniteSets, TLC

VARIABLES
    homicides,            \* homicide table: Seq of [x, y, time_offset]
    sales,                \* sales table: Seq of [x, y, time_offset, sale_date]
    distances,            \* the caller's `distances` list
    windows,              \* <<before_days, after_days>>
    window_sales,         \* option
    add_interactions,     \* option
    exclude_duplicates,   \* option
    trim_by_max_distance, \* option
    geometry_isnull,      \* per table, the positions of the rows without a geometry
    columns,              \* per table, the columns it carries
    pc,                   \* "loop", "post", "done"
    i,                    \* number of homicides the loop has processed
    groups,               \* the MatchGroups yielded so far, in order
    flags,                \* salesWithFlags before/after columns
    within,               \* salesWithFlags within columns
    rows,                 \* positions of the rows still in salesWithFlags
    cols,                 \* flag columns present in salesWithFlags
    \* get_modeling_inputs
    use_features,         \* [given, list]: the list object passed as
                          \* use_features; given is FALSE for None
    use_features_passed,  \* the contents of that object when the call was made
    endog,                \* argument: name of the dependent variable
    as_panel,             \* argument
    engineer_sales,       \* argument
    features,             \* the columns of the features table
    pc_modeling,          \* position in get_modeling_inputs
    \* get_sale_price_psf_from_homicide (with homicides, sales, windows,
    \* window_sales, geometry_isnull, columns, i and groups above)
    space_radius,         \* argument, in 1/20 mile
    nbins,                \* argument
    split_results,        \* argument
    sales_valid,          \* the local `sales` after the windowing
    sale_price_psf,       \* the series of line 50, by position in sales_valid
    D_arrays,             \* D: per tag, the list of distance arrays
    Y_arrays,             \* Y: per tag, the list of response arrays
    binned,               \* the returned series, by result name and bin number
    pc_distance,          \* position in get_sale_price_psf_from_homicide
    \* get_binned_pta_data
    PTA,                  \* argument: rows with time_offset and sale_price_psf
    pta_window,           \* argument time_window, in days
    bin_size,             \* argument, in days
    bins,                 \* the bin values in days
    pta_edges,            \* the edges of each half bound so far, in seconds
    out,                  \* the list of the tables of the halves
    pc_pta,               \* position in get_binned_pta_data
    \* feature_engineer_sales
    raw_sales,            \* argument sales: rows with the categorical fields
    raw_columns,          \* the columns the argument carries
    engineered,           \* the table `out`
    other_col,            \* number of columns the "Other" loop has visited
    pc_engineer,          \* position in feature_engineer_sales
    \* Dataset.get over one cache directory
    cache_dir,            \* whether the directory `dirname` exists
    data_file,            \* the data file: [exists, content]
    meta_json,            \* the file meta.json: [exists, content]
    calls,                \* the calls of get made so far, one record each
    \* repeated calls of feature_engineer_sales
    sales_tables,         \* the sales tables the caller holds
    tie_order,            \* the order the sort gives values of equal count
    results,              \* one record per call: the table passed, the table returned
    \* get_modeling_inputs on the rows of a sales table
    sales_in,             \* the argument sales: [index, rows, columns, categories]
    dropna,               \* the argument dropna
    frame,                \* the local table `features`
    retained,             \* the table after the trimming of columns and rows
    encoded,              \* cat_cols, num_cols and the table oneHotData
    X_out,                \* the returned X: [columns, index, rows]
    Y_out,                \* the returned Y: [index, rows, values]
    pc_inputs             \* position in get_modeling_inputs

vars == <<homicides, sales, distances, windows, window_sales, add_interactions,
          exclude_duplicates, trim_by_max_distance, geometry_isnull, columns,
          pc, i, groups, flags, within, rows, cols,
          use_features, use_features_passed, endog, as_panel, engineer_sales,
          features, pc_modeling,
          space_radius, nbins, split_results, sales_valid, sale_price_psf,
          D_arrays, Y_arrays, binned, pc_distance,
          PTA, pta_window, bin_size, bins, pta_edges, out, pc_pta,
          raw_sales, raw_columns, engineered, other_col, pc_engineer,
          cache_dir, data_file, meta_json, calls,
          sales_tables, tie_order, results,
          sales_in, dropna, frame, retained, encoded, X_out, Y_out, pc_inputs>>

inputs == <<homicides, sales, distances, windows, window_sales,
            add_interactions, exclude_duplicates, trim_by_max_distance,
            geometry_isnull, columns>>

flag_vars == <<inputs, pc, i, groups, flags, within, rows, cols>>

modeling_vars == <<use_features, use_features_passed, endog, as_panel,
                   engineer_sales, features, pc_modeling>>

distance_vars == <<space_radius, nbins, split_results, sales_valid,
                   sale_price_psf, D_arrays, Y_arrays, binned, pc_distance>>

pta_vars == <<PTA, pta_window, bin_size, bins, pta_edges, out, pc_pta>>

engineer_vars == <<raw_sales, raw_columns, engineered, other_col, pc_engineer>>

dataset_vars == <<cache_dir, data_file, meta_json, calls>>

repeat_vars == <<sales_tables, tie_order, results>>

inputs_vars == <<sales_in, dropna, frame, retained, encoded, X_out, Y_out, pc_inputs>>

\* the state of the functions other than add_spacetime_flags
elsewhere == <<modeling_vars, distance_vars, pta_vars, engineer_vars,
               dataset_vars,
               repeat_vars,
               inputs_vars>>

----------------------------------------------------------------------------
(* Program constants *)

FT_PER_MILE == 5280

SECONDS_PER_DAY == 60 * 60 * 24

----------------------------------------------------------------------------
(* Bounds of the model *)

MaxHomicides == 2

MaxSales == 2

----------------------------------------------------------------------------
(* Input domains *)

Days(d) == d * SECONDS_PER_DAY

\* a homicide: location in feet and seconds since the epoch
Pt(px, py, pt) == [x |-> px, y |-> py, time_offset |-> pt]

HomicideChoices ==
    { Pt(0, 0, Days(0)), Pt(0, 0, Days(10)), Pt(264, 0, Days(0)) }

\* a sale: its sale_date is the instant its time_offset counts from the epoch
Sale(px, py, pt) == [x |-> px, y |-> py, time_offset |-> pt, sale_date |-> pt]

SaleChoices ==
    { Sale(l[1], l[2], t) : l \in {<<168, 200>>, <<264, 0>>},
                          t \in {Days(0), Days(5)} }

SeqsUpTo(S, n) == UNION { [1..m -> S] : m \in 0..n }

\* the worked scenario of the specification (section 8)
ScenarioHomicides == << Pt(0, 0, 0), Pt(100, 0, 0), Pt(1000, 0, 0) >>

ScenarioSales ==
    << Sale(10, 0, Days(5)), Sale(10, 0, Days(-5)), Sale(150, 0, Days(5)),
       Sale(1500, 0, Days(5)), Sale(10, 0, Days(50)) >>

----------------------------------------------------------------------------
(* Helpers *)

Sq(n) == n * n

\* distances[j] * FT_PER_MILE, with d counted in twentieths of a mile
Feet(d) == d * (FT_PER_MILE \div 20)

\* squared Euclidean distance between a homicide and a sale
Dist2(h, s) == Sq(h.x - s.x) + Sq(h.y - s.y)

\* D >= a and D < b for a distance D >= 0 known by its square D2
DistGE(D2, a) == a <= 0 \/ D2 >= Sq(a)

DistLT(D2, b) == b > 0 /\ D2 < Sq(b)

DistLE(D2, b) == b >= 0 /\ D2 <= Sq(b)

SeqMax(s) == CHOOSE m \in {s[n] : n \in 1..Len(s)} :
                 \A n \in 1..Len(s) : s[n] <= m

Tags == {"before", "after"}

----------------------------------------------------------------------------
(* add_spacetime_flags, lines 137-145: the local `distances` list *)

\* the local list after `if distances[0] != 0: distances = [0] + distances`
Edges(ds) == IF ds[1] # 0 THEN <<0>> \o ds ELSE ds

\* distances[1:], the boundaries that name the flag columns
FlagDists(ds) == { Edges(ds)[n] : n \in 2..Len(Edges(ds)) }

max_distance(ds) == SeqMax(Edges(ds))

----------------------------------------------------------------------------
(* knn_distance: NearestNeighbors(radius).radius_neighbors, which returns  *)
(* every sale whose distance to the homicide is at most the radius (points *)
(* on the boundary are included).                                          *)

\* variant: a sale is returned only to the first homicide that reaches it
knn_distance_first(hs, ss, radius) ==
    [ h \in 1..Len(hs) |->
        { k \in 1..Len(ss) :
            /\ DistLE(Dist2(hs[h], ss[k]), radius)
            /\ \A g \in 1..(h - 1) : ~ DistLE(Dist2(hs[g], ss[k]), radius) } ]

knn_distance(hs, ss, radius) ==
    [ h \in 1..Len(hs) |->
        { k \in 1..Len(ss) : DistLE(Dist2(hs[h], ss[k]), radius) } ]

----------------------------------------------------------------------------
(* _get_sale_groups_by_homicide: the group yielded for homicide number h   *)
(* (1-based here, h-1 in the source).                                      *)

\* variant: a sale at the homicide's instant counts as 'after'
SaleGroup_dt0(hs, ss, radius_mi, time_window, h) ==
    LET indices == knn_distance(hs, ss, Feet(radius_mi))[h]
        dt == [ k \in indices |-> ss[k].time_offset - hs[h].time_offset ]
        after == { k \in indices :
                     dt[k] >= 0 /\ dt[k] < time_window[2] * SECONDS_PER_DAY }
        before == { k \in indices :
                     dt[k] < 0 /\ dt[k] > (0 - time_window[1]) * SECONDS_PER_DAY }
    IN  [ i       |-> h - 1,
          dt      |-> dt,
          indices |-> [ before |-> before, after |-> after ],
          dists   |-> [ before |-> [ k \in before |-> Dist2(hs[h], ss[k]) ],
                        after  |-> [ k \in after  |-> Dist2(hs[h], ss[k]) ] ] ]

\* variant: the window is compared in days against a dt in seconds
SaleGroup_days(hs, ss, radius_mi, time_window, h) ==
    LET indices == knn_distance(hs, ss, Feet(radius_mi))[h]
        dt == [ k \in indices |-> ss[k].time_offset - hs[h].time_offset ]
        after == { k \in indices : dt[k] > 0 /\ dt[k] < time_window[2] }
        before == { k \in indices : dt[k] < 0 /\ dt[k] > 0 - time_window[1] }
    IN  [ i       |-> h - 1,
          dt      |-> dt,
          indices |-> [ before |-> before, after |-> after ],
          dists   |-> [ before |-> [ k \in before |-> Dist2(hs[h], ss[k]) ],
                        after  |-> [ k \in after  |-> Dist2(hs[h], ss[k]) ] ] ]

\* variant: 'before' is every sale within the before-window of the homicide,
\* on either side of it
SaleGroup_abs(hs, ss, radius_mi, time_window, h) ==
    LET indices == knn_distance(hs, ss, Feet(radius_mi))[h]
        dt == [ k \in indices |-> ss[k].time_offset - hs[h].time_offset ]
        after == { k \in indices :
                     dt[k] > 0 /\ dt[k] < time_window[2] * SECONDS_PER_DAY }
        before == { k \in indices :
                     /\ dt[k] # 0
                     /\ dt[k] < time_window[1] * SECONDS_PER_DAY
                     /\ dt[k] > (0 - time_window[1]) * SECONDS_PER_DAY }
    IN  [ i       |-> h - 1,
          dt      |-> dt,
          indices |-> [ before |-> before, after |-> after ],
          dists   |-> [ before |-> [ k \in before |-> Dist2(hs[h], ss[k]) ],
                        after  |-> [ k \in after  |-> Dist2(hs[h], ss[k]) ] ] ]

SaleGroup(hs, ss, radius_mi, time_window, h) ==
    LET indices == knn_distance(hs, ss, Feet(radius_mi))[h]
        dt == [ k \in indices |-> ss[k].time_offset - hs[h].time_offset ]
        after == { k \in indices :
                     dt[k] > 0 /\ dt[k] < time_window[2] * SECONDS_PER_DAY }
        before == { k \in indices :
                     dt[k] < 0 /\ dt[k] > (0 - time_window[1]) * SECONDS_PER_DAY }
    IN  [ i       |-> h - 1,
          dt      |-> dt,
          indices |-> [ before |-> before, after |-> after ],
          dists   |-> [ before |-> [ k \in before |-> Dist2(hs[h], ss[k]) ],
                        after  |-> [ k \in after  |-> Dist2(hs[h], ss[k]) ] ] ]

----------------------------------------------------------------------------
(* add_spacetime_flags *)

\* variant: the upper boundary belongs to the band
InBand_closed(D2, lo, hi) == DistGE(D2, Feet(lo)) /\ DistLE(D2, Feet(hi))

\* lines 166-167: the pair's distance satisfies band (lo, hi)
InBand(D2, lo, hi) == DistGE(D2, Feet(lo)) /\ DistLT(D2, Feet(hi))

\* variant: the band test of the group overwrites the column
ApplyGroup_overwrite(fl, g, ds) ==
    [ k \in DOMAIN fl |->
        [ c \in DOMAIN fl[k] |->
            IF \E j \in 1..(Len(Edges(ds)) - 1) :
                   /\ Edges(ds)[j + 1] = c[2]
                   /\ k \in g.indices[c[1]]
                   /\ InBand(g.dists[c[1]][k], Edges(ds)[j], Edges(ds)[j + 1])
            THEN 1
            ELSE 0 ] ]

\* variant: the column of every sale of the group is assigned its band test
ApplyGroup_assign(fl, g, ds) ==
    [ k \in DOMAIN fl |->
        [ c \in DOMAIN fl[k] |->
            IF k \in g.indices[c[1]]
            THEN IF \E j \in 1..(Len(Edges(ds)) - 1) :
                        /\ Edges(ds)[j + 1] = c[2]
                        /\ InBand(g.dists[c[1]][k], Edges(ds)[j], Edges(ds)[j + 1])
                 THEN 1 ELSE 0
            ELSE fl[k][c] ] ]

\* lines 162-171: the flag columns after one group has been applied
ApplyGroup(fl, g, ds) ==
    [ k \in DOMAIN fl |->
        [ c \in DOMAIN fl[k] |->
            IF \E j \in 1..(Len(Edges(ds)) - 1) :
                   /\ Edges(ds)[j + 1] = c[2]
                   /\ k \in g.indices[c[1]]
                   /\ InBand(g.dists[c[1]][k], Edges(ds)[j], Edges(ds)[j + 1])
            THEN 1
            ELSE fl[k][c] ] ]

SetMin(S) == CHOOSE m \in S : \A n \in S : m <= n

SetMax(S) == CHOOSE m \in S : \A n \in S : n <= m

\* variant: the two ends of the kept period are excluded
WindowValid_strict(ss, R, w) ==
    IF R = {} THEN {}
    ELSE LET dates == { ss[k].sale_date : k \in R }
             min_time == SetMin(dates) + w[1] * SECONDS_PER_DAY
             max_time == SetMax(dates) - w[2] * SECONDS_PER_DAY
         IN  { k \in R : ss[k].sale_date > min_time
                         /\ ss[k].sale_date < max_time }

\* lines 176-185: the rows kept by the window_sales trimming
WindowValid(ss, R, w) ==
    IF R = {} THEN {}
    ELSE LET dates == { ss[k].sale_date : k \in R }
             min_time == SetMin(dates) + w[1] * SECONDS_PER_DAY
             max_time == SetMax(dates) - w[2] * SECONDS_PER_DAY
         IN  { k \in R : ss[k].sale_date >= min_time
                         /\ ss[k].sale_date <= max_time }

\* lines 189-192: the value of spacetime_flag_within_{d} for row k
WithinFlag(fl, k, d) ==
    IF fl[k][<<"after", d>>] # 0 \/ fl[k][<<"before", d>>] # 0 THEN 1 ELSE 0

\* variant: the last band is never tested
DuplicateDists_inner(ds, trim) ==
    { Edges(ds)[n] : n \in 2..(Len(Edges(ds)) - 1) }

\* variant: every band is always tested
DuplicateDists_all(ds, trim) ==
    { Edges(ds)[n] : n \in 2..Len(Edges(ds)) }

\* lines 203-206: the boundaries whose bands are tested for duplicates
DuplicateDists(ds, trim) ==
    IF trim THEN { Edges(ds)[n] : n \in 2..(Len(Edges(ds)) - 1) }
    ELSE { Edges(ds)[n] : n \in 2..Len(Edges(ds)) }

\* lines 209-212: rows left after the duplicated rows are removed
RemoveDuplicates(fl, R, D) ==
    { k \in R : ~ \E d \in D :
                    fl[k][<<"after", d>>] # 0 /\ fl[k][<<"before", d>>] # 0 }

\* variant: the within column of the last band is left out of the sum
RemoveOutside_inner(wi, R, ds) ==
    { k \in R : \E d \in FlagDists(ds) \ {Edges(ds)[Len(Edges(ds))]} :
                    wi[k][d] # 0 }

\* lines 217-219: rows left after the rows outside every band are removed
RemoveOutside(wi, R, ds) ==
    { k \in R : \E d \in FlagDists(ds) : wi[k][d] # 0 }

\* variant: the after columns are dropped instead of the before columns
toRemove_after(ds, trim) ==
    { <<"after", d>> : d \in FlagDists(ds) }
    \cup (IF trim
          THEN { <<tag, Edges(ds)[Len(Edges(ds))]>> :
                     tag \in {"after", "before", "within"} }
          ELSE {})

\* lines 222-227: the columns dropped at the end
toRemove(ds, trim) ==
    { <<"before", d>> : d \in FlagDists(ds) }
    \cup (IF trim
          THEN { <<tag, Edges(ds)[Len(Edges(ds))]>> :
                     tag \in {"after", "before", "within"} }
          ELSE {})

\* the value the table holds in flag column c for row k
CellValue(c, k) == IF c[1] = "within" THEN within[k][c[2]] ELSE flags[k][c]

\* lines 150-171: the flag columns after the groups of the first n homicides
RECURSIVE FlagsAfter(_, _, _, _, _)
FlagsAfter(hs, ss, ds, w, n) ==
    IF n = 0
    THEN [ k \in 1..Len(ss) |-> [ c \in Tags \X FlagDists(ds) |-> 0 ] ]
    ELSE ApplyGroup(FlagsAfter(hs, ss, ds, w, n - 1),
                    SaleGroup(hs, ss, max_distance(ds), w, n), ds)

\* lines 137-230: the table add_spacetime_flags returns on tables with rows:
\* its rows, its flag columns and the value of every cell
ReturnedTable(hs, ss, ds, w, ws, ai, ed, tr) ==
    LET fl == FlagsAfter(hs, ss, ds, w, Len(hs))
        R0 == IF ws THEN WindowValid(ss, 1..Len(ss), w) ELSE 1..Len(ss)
        wi == [ k \in 1..Len(ss) |->
                  [ d \in FlagDists(ds) |->
                      IF k \in R0 THEN WithinFlag(fl, k, d) ELSE 0 ] ]
        R1 == IF ai /\ ed THEN RemoveDuplicates(fl, R0, DuplicateDists(ds, tr))
              ELSE R0
        R2 == IF ai /\ tr THEN RemoveOutside(wi, R1, ds) ELSE R1
        all == (Tags \cup {"within"}) \X FlagDists(ds)
        C == IF ai THEN all \ toRemove(ds, tr) ELSE all
    IN  [ rows |-> R2,
          cols |-> C,
          cells |-> [ k \in R2 |->
                       [ c \in C |-> IF c[1] = "within" THEN wi[k][c[2]]
                                     ELSE fl[k][c] ] ] ]

\* the permutations of 1..n
Reorderings(n) ==
    { p \in [1..n -> 1..n] : \A a, b \in 1..n : p[a] = p[b] => a = b }

----------------------------------------------------------------------------
(* The state machine *)

\* no call of add_spacetime_flags is in progress
IdleFlags ==
    /\ homicides = <<>>
    /\ sales = <<>>
    /\ distances = <<>>
    /\ windows = <<0, 0>>
    /\ window_sales = TRUE
    /\ add_interactions = TRUE
    /\ exclude_duplicates = TRUE
    /\ trim_by_max_distance = TRUE
    /\ geometry_isnull = [sales |-> {}, homicides |-> {}]
    /\ columns = [sales |-> {}, homicides |-> {}]
    /\ pc = "idle"
    /\ i = 0
    /\ groups = <<>>
    /\ flags = <<>>
    /\ within = <<>>
    /\ rows = {}
    /\ cols = {}

\* no call of get_modeling_inputs is in progress
IdleModeling ==
    /\ use_features = [given |-> FALSE, list |-> <<>>]
    /\ use_features_passed = use_features
    /\ endog = "ln_sale_price_indexed"
    /\ as_panel = FALSE
    /\ engineer_sales = TRUE
    /\ features = {}
    /\ pc_modeling = "idle"

\* no call of get_sale_price_psf_from_homicide is in progress
IdleDistance ==
    /\ space_radius = 0
    /\ nbins = 0
    /\ split_results = FALSE
    /\ sales_valid = <<>>
    /\ sale_price_psf = <<>>
    /\ D_arrays = [before |-> <<>>, after |-> <<>>]
    /\ Y_arrays = [before |-> <<>>, after |-> <<>>]
    /\ binned = <<>>
    /\ pc_distance = "idle"

\* no call of get_binned_pta_data is in progress
IdlePTA ==
    /\ PTA = <<>>
    /\ pta_window = 0
    /\ bin_size = 0
    /\ bins = <<>>
    /\ pta_edges = <<>>
    /\ out = <<>>
    /\ pc_pta = "idle"

\* no call of feature_engineer_sales is in progress
IdleEngineer ==
    /\ raw_sales = <<>>
    /\ raw_columns = {}
    /\ engineered = <<>>
    /\ other_col = 0
    /\ pc_engineer = "idle"

DistanceLists == { <<1>>, <<0, 1, 2>> }

WindowChoices == { <<10, 10>>, <<5, 10>> }

IdleDataset ==
    /\ cache_dir = FALSE
    /\ data_file = [ exists |-> FALSE, content |-> 0 ]
    /\ meta_json = [ exists |-> FALSE, content |-> 0 ]
    /\ calls = <<>>

IdleRepeat ==
    /\ sales_tables = <<>>
    /\ tie_order = "first"
    /\ results = <<>>

IdleInputs ==
    /\ sales_in = <<>>
    /\ dropna = FALSE
    /\ frame = <<>>
    /\ retained = <<>>
    /\ encoded = <<>>
    /\ X_out = <<>>
    /\ Y_out = <<>>
    /\ pc_inputs = "idle"

Init ==
    /\ \E tables \in (SeqsUpTo(HomicideChoices, MaxHomicides)
                        \X SeqsUpTo(SaleChoices, MaxSales))
                     \cup {<<ScenarioHomicides, ScenarioSales>>} :
           /\ homicides = tables[1]
           /\ sales = tables[2]
    /\ distances \in DistanceLists
    /\ windows \in WindowChoices
    /\ window_sales \in BOOLEAN
    /\ add_interactions \in BOOLEAN
    /\ exclude_duplicates \in BOOLEAN
    /\ trim_by_max_distance \in BOOLEAN
    /\ geometry_isnull = [sales |-> {}, homicides |-> {}]
    /\ columns = [sales |-> {"time_offset"}, homicides |-> {"time_offset"}]
    /\ pc = "loop"
    /\ i = 0
    /\ groups = <<>>
    \* lines 148-153: a copy of the sales with every flag column set to 0
    /\ flags = [ k \in 1..Len(sales) |->
                   [ c \in Tags \X FlagDists(distances) |-> 0 ] ]
    /\ within = [ k \in 1..Len(sales) |-> [ d \in FlagDists(distances) |-> 0 ] ]
    /\ rows = 1..Len(sales)
    /\ cols = Tags \X FlagDists(distances)
    /\ IdleModeling
    /\ IdleDistance
    /\ IdlePTA
    /\ IdleEngineer
    /\ IdleDataset
    /\ IdleRepeat
    /\ IdleInputs

\* variant: only the sales table is checked
AssertionsHold_sales ==
    /\ geometry_isnull.sales = {}
    /\ "time_offset" \in columns.sales

\* lines 56-62: the assertions at the head of the generator, which run when
\* the loop asks for the first group
AssertionsHold ==
    /\ geometry_isnull.sales = {}
    /\ geometry_isnull.homicides = {}
    /\ "time_offset" \in columns.sales
    /\ "time_offset" \in columns.homicides

\* lines 31-32 reached from line 77: NearestNeighbors.fit and
\* radius_neighbors validate their arrays and raise ValueError on an array
\* with no row
QueryRaises(hs, ss) == Len(ss) = 0 \/ Len(hs) = 0

\* lines 159-171: one iteration of the loop over the yielded groups
MatchEvent ==
    /\ pc = "loop"
    /\ AssertionsHold
    /\ ~ QueryRaises(homicides, sales)
    /\ i < Len(homicides)
    /\ LET g == SaleGroup(homicides, sales, max_distance(distances), windows, i + 1)
       IN  /\ groups' = Append(groups, g)
           /\ flags' = ApplyGroup(flags, g, distances)
    /\ i' = i + 1
    /\ UNCHANGED <<inputs, elsewhere, pc, within, rows, cols>>

\* lines 173-186: the loop is exhausted; window the sales
WindowSales ==
    /\ pc = "loop"
    /\ AssertionsHold
    /\ ~ QueryRaises(homicides, sales)
    /\ i = Len(homicides)
    /\ rows' = IF window_sales THEN WindowValid(sales, rows, windows) ELSE rows
    /\ pc' = "within"
    /\ UNCHANGED <<inputs, elsewhere, i, groups, flags, within, cols>>

\* lines 188-192: add the within columns
AddWithinFlags ==
    /\ pc = "within"
    /\ within' = [ k \in DOMAIN within |->
                     [ d \in DOMAIN within[k] |->
                         IF k \in rows THEN WithinFlag(flags, k, d) ELSE 0 ] ]
    /\ cols' = cols \cup { <<"within", d>> : d \in FlagDists(distances) }
    /\ pc' = "interactions"
    /\ UNCHANGED <<inputs, elsewhere, i, groups, flags, rows>>

\* lines 194-196: return the table with the raw flags
ReturnFlags ==
    /\ pc = "interactions"
    /\ ~ add_interactions
    /\ pc' = "done"
    /\ UNCHANGED <<inputs, elsewhere, i, groups, flags, within, rows, cols>>

\* lines 198-230: exclude duplicates, trim, drop the extra columns, return
AddInteractions ==
    /\ pc = "interactions"
    /\ add_interactions
    /\ LET R1 == IF exclude_duplicates
                 THEN RemoveDuplicates(flags, rows,
                          DuplicateDists(distances, trim_by_max_distance))
                 ELSE rows
           R2 == IF trim_by_max_distance
                 THEN RemoveOutside(within, R1, distances)
                 ELSE R1
       IN  rows' = R2
    /\ cols' = cols \ toRemove(distances, trim_by_max_distance)
    /\ pc' = "done"
    /\ UNCHANGED <<inputs, elsewhere, i, groups, flags, within>>

\* lines 64-77 reached from line 159: the radius query raises when the loop
\* asks for the first group
QueryFails ==
    /\ pc = "loop"
    /\ i = 0
    /\ AssertionsHold
    /\ QueryRaises(homicides, sales)
    /\ pc' = "ValueError"
    /\ UNCHANGED <<inputs, elsewhere, i, groups, flags, within, rows, cols>>

Next ==
    \/ QueryFails
    \/ MatchEvent
    \/ WindowSales
    \/ AddWithinFlags
    \/ ReturnFlags
    \/ AddInteractions

Spec == Init /\ [][Next]_vars

----------------------------------------------------------------------------
(* add_spacetime_flags from its first line, on inputs that may break the
   preconditions: a distances list that is empty or has a negative boundary,
   rows without a geometry, tables without the time_offset column *)

ValidationDistanceLists == DistanceLists \cup { <<>>, <<-1, 1>> }

\* the defects of the two tables: nothing missing, a first row without a
\* geometry, a missing time_offset column
DefectChoices(hs, ss) ==
    LET ok == {"time_offset"}
        D(sn, hn, sc, hc) ==
            [ geometry_isnull |-> [sales |-> sn, homicides |-> hn],
              columns |-> [sales |-> sc, homicides |-> hc] ]
    IN  { D({}, {}, ok, ok), D({}, {}, {}, ok), D({}, {}, ok, {}) }
        \cup (IF Len(ss) > 0 THEN { D({1}, {}, ok, ok) } ELSE {})
        \cup (IF Len(hs) > 0 THEN { D({}, {1}, ok, ok), D({}, {Len(hs)}, ok, {}) }
              ELSE {})

InitValidation ==
    /\ \E tables \in (SeqsUpTo(HomicideChoices, MaxHomicides)
                        \X SeqsUpTo(SaleChoices, MaxSales))
                     \cup {<<ScenarioHomicides, ScenarioSales>>} :
           /\ homicides = tables[1]
           /\ sales = tables[2]
    /\ distances \in ValidationDistanceLists
    /\ windows = <<10, 10>>
    /\ window_sales = TRUE
    /\ add_interactions \in BOOLEAN
    /\ exclude_duplicates = TRUE
    /\ trim_by_max_distance = FALSE
    /\ \E d \in DefectChoices(homicides, sales) :
           /\ geometry_isnull = d.geometry_isnull
           /\ columns = d.columns
    /\ pc = "start"
    /\ i = 0
    /\ groups = <<>>
    /\ flags = <<>>
    /\ within = <<>>
    /\ rows = {}
    /\ cols = {}
    /\ IdleModeling
    /\ IdleDistance
    /\ IdlePTA
    /\ IdleEngineer
    /\ IdleDataset
    /\ IdleRepeat
    /\ IdleInputs

\* lines 137-153: normalise the distances (the read of distances[0] raises
\* IndexError on an empty list), copy the sales, set every flag column to 0
ZeroFlags ==
    /\ pc = "start"
    /\ IF Len(distances) = 0
       THEN /\ pc' = "IndexError"
            /\ UNCHANGED <<flags, within, rows, cols>>
       ELSE /\ pc' = "loop"
            /\ flags' = [ k \in 1..Len(sales) |->
                            [ c \in Tags \X FlagDists(distances) |-> 0 ] ]
            /\ within' = [ k \in 1..Len(sales) |->
                             [ d \in FlagDists(distances) |-> 0 ] ]
            /\ rows' = 1..Len(sales)
            /\ cols' = Tags \X FlagDists(distances)
    /\ UNCHANGED <<inputs, elsewhere, i, groups>>

\* lines 56-62 reached from line 159: an assertion of the generator fails
\* when the loop asks for the first group
AssertionFails ==
    /\ pc = "loop"
    /\ i = 0
    /\ ~ AssertionsHold
    /\ pc' = "AssertionError"
    /\ UNCHANGED <<inputs, elsewhere, i, groups, flags, within, rows, cols>>

NextValidation ==
    \/ ZeroFlags
    \/ AssertionFails
    \/ QueryFails
    \/ MatchEvent
    \/ WindowSales
    \/ AddWithinFlags
    \/ ReturnFlags
    \/ AddInteractions

SpecValidation == InitValidation /\ [][NextValidation]_vars

----------------------------------------------------------------------------
(* modeling/core.py: get_modeling_inputs, the columns of the features table *)

BUILDING_CHARACTERISTICS ==
    { "basements", "building_code_description", "central_air", "depth",
      "exterior_condition", "fireplaces", "frontage", "garage_spaces",
      "general_construction", "homestead_exemption", "interior_condition",
      "is_condo", "neighborhood", "number_of_bathrooms", "number_of_bedrooms",
      "number_of_rooms", "number_stories", "police_district", "season",
      "topography", "total_area", "total_livable_area", "type_heater",
      "view_type", "year_built", "zip_code", "zoning" }

REMOVE ==
    { "geometry", "sale_price", "sale_price_indexed", "time_offset",
      "ln_sale_price", "ln_sale_price_indexed", "lat", "lng",
      "police_district", "zip_code", "sale_year" }

MaxFeatures == 2

Range(f) == { f[n] : n \in DOMAIN f }

\* the columns of a raw sales table: every building characteristic but the
\* derived season, and the columns feature_engineer_sales selects by name
RawColumns ==
    (BUILDING_CHARACTERISTICS \ {"season"})
    \cup { "geometry", "ln_sale_price", "ln_sale_price_indexed", "sale_price",
           "sale_price_indexed", "sale_year", "sale_date", "time_offset" }

SalesColumnChoices ==
    { RawColumns,
      RawColumns \ {"zoning"},
      RawColumns \cup {"spacetime_flag_after_1", "spacetime_flag_within_1"} }

UseFeaturesChoices ==
    { [given |-> FALSE, list |-> <<>>] }
    \cup { [given |-> TRUE, list |-> l] :
             l \in SeqsUpTo({"neighborhood", "zoning", "garage_spaces"},
                            MaxFeatures) }

EndogChoices == { "ln_sale_price_indexed", "sale_year", "zoning" }

\* lines 180-255 of feature_engineer_sales: the columns of its output
EngineeredColumns(cs) ==
    (({ c \in cs : c \in BUILDING_CHARACTERISTICS }
        \cup { "geometry", "ln_sale_price", "ln_sale_price_indexed",
               "sale_price", "sale_price_indexed", "sale_year", "sale_date",
               "time_offset" }
        \cup { c \in cs : c \in {"spacetime_flag_after_1",
                                 "spacetime_flag_within_1"} }
        \cup { "year_built", "sold_in_year_built", "month", "central_air",
               "is_condo", "fireplaces", "homestead_exemption", "season",
               "garage_spaces", "number_of_bathrooms", "number_of_bedrooms",
               "number_of_rooms", "number_stories", "log_total_area",
               "log_total_livable_area" })
       \ { "sale_date", "month", "total_area", "total_livable_area" })
    \cup { "lat", "lng" }

\* lines 326-330: the list object after the panel columns are ensured
PanelFeatures(uf, panel) ==
    IF panel /\ "neighborhood" \notin Range(uf)
    THEN Append(uf, "neighborhood")
    ELSE uf

InitModeling ==
    /\ IdleFlags
    /\ IdleDistance
    /\ IdlePTA
    /\ IdleEngineer
    /\ IdleDataset
    /\ IdleRepeat
    /\ IdleInputs
    /\ use_features \in UseFeaturesChoices
    /\ use_features_passed = use_features
    /\ endog \in EndogChoices
    /\ as_panel \in BOOLEAN
    /\ engineer_sales \in BOOLEAN
    /\ features \in SalesColumnChoices
    /\ pc_modeling = "assert"

\* line 315
AssertEndog ==
    /\ pc_modeling = "assert"
    /\ pc_modeling' = IF endog \in REMOVE THEN "engineer" ELSE "AssertionError"
    /\ UNCHANGED <<dataset_vars, inputs_vars, repeat_vars,
                   flag_vars, distance_vars, pta_vars, engineer_vars,
                   use_features, use_features_passed, endog,
                   as_panel, engineer_sales, features>>

\* lines 317-321
EngineerFeatures ==
    /\ pc_modeling = "engineer"
    /\ features' = IF engineer_sales THEN EngineeredColumns(features) ELSE features
    /\ pc_modeling' = "trim"
    /\ UNCHANGED <<dataset_vars, inputs_vars, repeat_vars,
                   flag_vars, distance_vars, pta_vars, engineer_vars,
                   use_features, use_features_passed, endog,
                   as_panel, engineer_sales>>

\* lines 323-338
TrimFeatures ==
    /\ pc_modeling = "trim"
    /\ IF ~ use_features.given
       THEN UNCHANGED <<use_features, features>>
       ELSE /\ use_features' =
                   [use_features EXCEPT
                      !.list = PanelFeatures(use_features.list, as_panel)]
            /\ features' = features \ { c \in BUILDING_CHARACTERISTICS :
                                           c \notin Range(use_features'.list) }
    /\ pc_modeling' = "remove"
    /\ UNCHANGED <<dataset_vars, inputs_vars, repeat_vars,
                   flag_vars, distance_vars, pta_vars, engineer_vars,
                   use_features_passed, endog, as_panel,
                   engineer_sales>>

\* lines 340-350; the second list.remove raises ValueError when endog is
\* sale_year, which line 342 has already removed
RemoveUnnecessary ==
    /\ pc_modeling = "remove"
    /\ IF as_panel /\ endog = "sale_year"
       THEN /\ pc_modeling' = "ValueError"
            /\ UNCHANGED features
       ELSE /\ features' = features
                   \ ((REMOVE \ {endog})
                        \ (IF as_panel THEN {"sale_year"} ELSE {}))
            /\ pc_modeling' = "columns"
    /\ UNCHANGED <<dataset_vars, inputs_vars, repeat_vars,
                   flag_vars, distance_vars, pta_vars, engineer_vars,
                   use_features, use_features_passed, endog,
                   as_panel, engineer_sales>>

NextModeling ==
    \/ AssertEndog
    \/ EngineerFeatures
    \/ TrimFeatures
    \/ RemoveUnnecessary

SpecModeling == InitModeling /\ [][NextModeling]_vars

----------------------------------------------------------------------------
(* modeling/distance.py: get_sale_price_psf_from_homicide. Distances are in
   feet, the response in whole price units per square foot; a mean is kept
   as its sum and its count, a median as twice its value *)

\* a sale with the two columns line 50 divides
PricedSale(px, pt, price, area) ==
    [ x |-> px, y |-> 0, time_offset |-> pt, sale_date |-> pt,
      sale_price_indexed |-> price, total_livable_area |-> area ]

PricedSaleChoices ==
    { PricedSale(30, Days(5), 100000, 1000),
      PricedSale(30, Days(-5), 400000, 2000),
      PricedSale(100, Days(1), 300000, 1000),
      PricedSale(100, Days(-5), 100000, 1000),
      PricedSale(200, Days(5), 800000, 2000),
      PricedSale(264, Days(5), 200000, 1000) }

TimeWindowChoices == { <<10, 10>>, <<2, 2>> }

NbinsChoices == { 2, 4 }

Abs(n) == IF n < 0 THEN 0 - n ELSE n

\* the Euclidean distance the radius query returns; the tables of this
\* specification lie on one line, where it is a whole number of feet
Distance(h, s) ==
    IF h.y = s.y THEN Abs(h.x - s.x)
    ELSE CHOOSE r \in 0..(Abs(h.x - s.x) + Abs(h.y - s.y)) :
             r * r <= Dist2(h, s) /\ Dist2(h, s) < (r + 1) * (r + 1)

\* lines 38-47: the sales left by the windowing
ValidSales(ss, tw) ==
    IF ss = <<>> THEN ss
    ELSE LET dates == { ss[k].sale_date : k \in 1..Len(ss) }
             min_time == SetMin(dates) + tw[1] * SECONDS_PER_DAY
             max_time == SetMax(dates) - tw[2] * SECONDS_PER_DAY
             valid(r) == r.sale_date >= min_time /\ r.sale_date <= max_time
         IN  SelectSeq(ss, valid)

\* the elements of a set of sale positions, in ascending order
RECURSIVE Ascending(_)
Ascending(S) ==
    IF S = {} THEN <<>>
    ELSE LET m == SetMin(S) IN <<m>> \o Ascending(S \ {m})

\* lines 67-69, 95-96: np.concatenate of a list of arrays
RECURSIVE Concatenate(_)
Concatenate(arrays) ==
    IF arrays = <<>> THEN <<>>
    ELSE Head(arrays) \o Concatenate(Tail(arrays))

RECURSIVE SeqSum(_)
SeqSum(a) == IF a = <<>> THEN 0 ELSE Head(a) + SeqSum(Tail(a))

\* the k-th smallest element of an array
KthSmallest(a, k) ==
    CHOOSE v \in Range(a) :
        /\ Cardinality({ j \in DOMAIN a : a[j] < v }) < k
        /\ Cardinality({ j \in DOMAIN a : a[j] <= v }) >= k

\* twice the median of a non-empty array
TwiceMedian(a) ==
    IF Len(a) % 2 = 1
    THEN 2 * KthSmallest(a, (Len(a) + 1) \div 2)
    ELSE KthSmallest(a, Len(a) \div 2) + KthSmallest(a, Len(a) \div 2 + 1)

\* lines 73-74: np.digitize over np.linspace(0, radius_ft, nb + 1), the
\* number of edges radius_ft * j / nb that are <= d
Digitize(d, radius_ft, nb) ==
    Cardinality({ j \in 0..nb : radius_ft * j <= d * nb })

\* variant: the groups are reindexed over every bin number, a bin without
\* a pair getting an entry of count 0
get_binned_distance_reindexed(Ds, Ys, nb, radius_ft) ==
    LET dig == [ j \in DOMAIN Ds |-> Digitize(Ds[j], radius_ft, nb) ]
        R(g) == SelectSeq([ j \in DOMAIN Ds |-> IF dig[j] = g THEN Ds[j] ELSE -1 ],
                          LAMBDA v : v >= 0)
        C(g) == SelectSeq([ j \in DOMAIN Ds |-> IF dig[j] = g THEN Ys[j] ELSE -1 ],
                          LAMBDA v : v >= 0)
    IN  [ g \in 1..(nb - 1) |->
            [ X |-> [sum |-> SeqSum(R(g)), count |-> Len(R(g))],
              C |-> IF Len(C(g)) = 0 THEN 0 ELSE TwiceMedian(C(g)),
              N |-> Len(R(g)) ] ]

\* lines 72-84: group by bin number, the groups being the observed bin
\* numbers in ascending order, and leave out the last group
get_binned_distance(Ds, Ys, nb, radius_ft) ==
    LET dig == [ j \in DOMAIN Ds |-> Digitize(Ds[j], radius_ft, nb) ]
        observed == { dig[j] : j \in DOMAIN Ds }
        kept == IF observed = {} THEN {} ELSE observed \ {SetMax(observed)}
        R(g) == SelectSeq([ j \in DOMAIN Ds |-> IF dig[j] = g THEN Ds[j] ELSE -1 ],
                          LAMBDA v : v >= 0)
        C(g) == SelectSeq([ j \in DOMAIN Ds |-> IF dig[j] = g THEN Ys[j] ELSE -1 ],
                          LAMBDA v : v >= 0)
    IN  [ g \in kept |->
            [ X |-> [sum |-> SeqSum(R(g)), count |-> Len(R(g))],
              C |-> TwiceMedian(C(g)),
              N |-> Len(R(g)) ] ]

InitDistance ==
    /\ \E tables \in SeqsUpTo(HomicideChoices, MaxHomicides)
                        \X SeqsUpTo(PricedSaleChoices, MaxSales) :
           /\ homicides = tables[1]
           /\ sales = tables[2]
    /\ windows \in TimeWindowChoices
    /\ window_sales \in BOOLEAN
    /\ space_radius = 1
    /\ nbins \in NbinsChoices
    /\ split_results \in BOOLEAN
    /\ geometry_isnull = [sales |-> {}, homicides |-> {}]
    /\ columns = [sales |-> {"time_offset"}, homicides |-> {"time_offset"}]
    /\ distances = <<>>
    /\ add_interactions = TRUE
    /\ exclude_duplicates = TRUE
    /\ trim_by_max_distance = TRUE
    /\ pc = "idle"
    /\ i = 0
    /\ groups = <<>>
    /\ flags = <<>>
    /\ within = <<>>
    /\ rows = {}
    /\ cols = {}
    /\ IdleModeling
    /\ IdlePTA
    /\ IdleEngineer
    /\ IdleDataset
    /\ IdleRepeat
    /\ IdleInputs
    /\ sales_valid = <<>>
    /\ sale_price_psf = <<>>
    /\ D_arrays = [before |-> <<>>, after |-> <<>>]
    /\ Y_arrays = [before |-> <<>>, after |-> <<>>]
    /\ binned = <<>>
    /\ pc_distance = "window"

\* lines 38-50: window the sales, divide the price by the area
PricePerFoot ==
    /\ pc_distance = "window"
    /\ sales_valid' = IF window_sales THEN ValidSales(sales, windows) ELSE sales
    /\ sale_price_psf' =
           [ k \in 1..Len(sales_valid') |->
               sales_valid'[k].sale_price_indexed
                   \div sales_valid'[k].total_livable_area ]
    /\ pc_distance' = "loop"
    /\ UNCHANGED <<dataset_vars, inputs_vars, repeat_vars,
                   inputs, modeling_vars, pta_vars, engineer_vars, pc, i, groups, flags, within, rows,
                   cols, space_radius, nbins, split_results, D_arrays, Y_arrays,
                   binned>>

\* lines 53, 58 with lines 56-77 of causality.py: the radius query raises
\* when the loop asks for the first group
DistanceQueryFails ==
    /\ pc_distance = "loop"
    /\ i = 0
    /\ AssertionsHold
    /\ QueryRaises(homicides, sales_valid)
    /\ pc_distance' = "ValueError"
    /\ UNCHANGED <<dataset_vars, inputs_vars, repeat_vars,
                   inputs, modeling_vars, pta_vars, engineer_vars, pc, i, groups, flags, within, rows,
                   cols, space_radius, nbins, split_results, sales_valid,
                   sale_price_psf, D_arrays, Y_arrays, binned>>

\* lines 58-65: one iteration of the loop over the yielded groups
AppendGroup ==
    /\ pc_distance = "loop"
    /\ AssertionsHold
    /\ ~ QueryRaises(homicides, sales_valid)
    /\ i < Len(homicides)
    /\ LET g == SaleGroup(homicides, sales_valid, space_radius, windows, i + 1)
           idx(tag) == Ascending(g.indices[tag])
           dists(tag) == [ j \in DOMAIN idx(tag) |->
                             Distance(homicides[i + 1], sales_valid[idx(tag)[j]]) ]
           psf(tag) == [ j \in DOMAIN idx(tag) |-> sale_price_psf[idx(tag)[j]] ]
       IN  /\ groups' = Append(groups, g)
           /\ D_arrays' = [ tag \in Tags |-> Append(D_arrays[tag], dists(tag)) ]
           /\ Y_arrays' = [ tag \in Tags |-> Append(Y_arrays[tag], psf(tag)) ]
    /\ i' = i + 1
    /\ UNCHANGED <<dataset_vars, inputs_vars, repeat_vars,
                   homicides, sales, distances, windows, window_sales,
                   add_interactions, exclude_duplicates, trim_by_max_distance,
                   geometry_isnull, columns, modeling_vars, pta_vars,
                   engineer_vars, pc, flags,
                   within,
                   rows, cols, space_radius, nbins, split_results, sales_valid,
                   sale_price_psf, binned, pc_distance>>

\* lines 67-98: concatenate the arrays, bin them, return
BinDistances ==
    /\ pc_distance = "loop"
    /\ AssertionsHold
    /\ ~ QueryRaises(homicides, sales_valid)
    /\ i = Len(homicides)
    /\ LET Dc == [ tag \in Tags |-> Concatenate(D_arrays[tag]) ]
           Yc == [ tag \in Tags |-> Concatenate(Y_arrays[tag]) ]
           radius_ft == Feet(space_radius)
       IN  binned' =
             IF split_results
             THEN [ tag \in Tags |->
                      get_binned_distance(Dc[tag], Yc[tag], nbins, radius_ft) ]
             ELSE [ tag \in {"all"} |->
                      get_binned_distance(Dc.before \o Dc.after,
                                          Yc.before \o Yc.after, nbins, radius_ft) ]
    /\ pc_distance' = "done"
    /\ UNCHANGED <<dataset_vars, inputs_vars, repeat_vars,
                   inputs, modeling_vars, pta_vars, engineer_vars, pc, i, groups, flags, within, rows,
                   cols, space_radius, nbins, split_results, sales_valid,
                   sale_price_psf, D_arrays, Y_arrays>>

NextDistance ==
    \/ PricePerFoot
    \/ DistanceQueryFails
    \/ AppendGroup
    \/ BinDistances

SpecDistance == InitDistance /\ [][NextDistance]_vars

----------------------------------------------------------------------------
(* modeling/pta.py: get_binned_pta_data. Edges and offsets are in seconds,
   bin values in days, a bin center is kept as twice its value, a mean as
   its sum and its count *)

MaxRows == 2

PTARow(t, psf) == [ time_offset |-> t, sale_price_psf |-> psf ]

\* offsets on bin edges, inside bins, at zero and half a day from zero
PTARowChoices ==
    { PTARow(Days(-4), 100), PTARow(Days(-2), 200), PTARow(Days(-1), 300),
      PTARow(0 - (SECONDS_PER_DAY \div 2), 400), PTARow(0, 500),
      PTARow(SECONDS_PER_DAY \div 2, 400), PTARow(Days(1), 300),
      PTARow(Days(2), 200), PTARow(Days(3), 200), PTARow(Days(4), 100) }

PTAWindowChoices == { 2, 3, 4 }

BinSizeChoices == { 1, 2 }

\* variant: the stop value is part of the range
arange_closed(start, stop, step) ==
    [ j \in 1..((stop - start) \div step + 1) |-> start + (j - 1) * step ]

\* np.arange(start, stop, step) for step > 0: the values start + j*step
\* below stop, ceil((stop - start) / step) of them
arange(start, stop, step) ==
    [ j \in 1..((stop - start + step - 1) \div step) |-> start + (j - 1) * step ]

Reverse(a) == [ j \in DOMAIN a |-> a[Len(a) + 1 - j] ]

\* lines 34-37
HalfEdges(h, bs) ==
    IF h = 0
    THEN [ j \in DOMAIN bs |-> bs[j] * SECONDS_PER_DAY ]
    ELSE [ j \in DOMAIN bs |-> (0 - 1) * Reverse(bs)[j] * SECONDS_PER_DAY ]

\* line 40: the rows of the half's query
HalfRows(P, h) ==
    IF h = 0
    THEN SelectSeq(P, LAMBDA row : row.time_offset > 0)
    ELSE SelectSeq(P, LAMBDA row : row.time_offset < 0)

\* lines 41-51: pd.cut puts an offset in the bin (edges[j], edges[j+1]];
\* the groups are all the bins, a bin without a row having no mean and N = 0
HalfTable(P, h, bs) ==
    LET edges == HalfEdges(h, bs)
        df == HalfRows(P, h)
        inbin(j) == SelectSeq(df, LAMBDA row : /\ edges[j] < row.time_offset
                                               /\ row.time_offset <= edges[j + 1])
        centers == [ j \in 1..(Len(bs) - 1) |-> bs[j + 1] + bs[j] ]
    IN  [ j \in 1..(Len(edges) - 1) |->
            [ sale_price_psf |->
                  [ sum |-> SeqSum([ n \in DOMAIN inbin(j) |->
                                        inbin(j)[n].sale_price_psf ]),
                    count |-> Len(inbin(j)) ],
              N |-> Len(inbin(j)),
              bin_centers |-> IF h = 0 THEN centers[j]
                              ELSE (0 - 1) * Reverse(centers)[j] ] ]

InitPTA ==
    /\ IdleFlags
    /\ IdleModeling
    /\ IdleDistance
    /\ IdleEngineer
    /\ IdleDataset
    /\ IdleRepeat
    /\ IdleInputs
    /\ PTA \in SeqsUpTo(PTARowChoices, MaxRows)
    /\ pta_window \in PTAWindowChoices
    /\ bin_size \in BinSizeChoices
    /\ bins = <<>>
    /\ pta_edges = <<>>
    /\ out = <<>>
    /\ pc_pta = "bins"

\* line 28
MakeBins ==
    /\ pc_pta = "bins"
    /\ bins' = arange(0, pta_window + bin_size, bin_size)
    /\ pc_pta' = "loop"
    /\ UNCHANGED <<dataset_vars, inputs_vars, repeat_vars,
                   flag_vars, modeling_vars, distance_vars, engineer_vars, PTA, pta_window,
                   bin_size, pta_edges, out>>

\* lines 31-53: one iteration of the loop over the two queries
BinHalf ==
    /\ pc_pta = "loop"
    /\ Len(out) < 2
    /\ pta_edges' = Append(pta_edges, HalfEdges(Len(out), bins))
    /\ out' = Append(out, HalfTable(PTA, Len(out), bins))
    /\ UNCHANGED <<dataset_vars, inputs_vars, repeat_vars,
                   flag_vars, modeling_vars, distance_vars, engineer_vars, PTA, pta_window,
                   bin_size, bins, pc_pta>>

\* line 55: concatenate the two tables and sort the rows by bin center
SortByCenter ==
    /\ pc_pta = "loop"
    /\ Len(out) = 2
    /\ out' = <<out[2] \o out[1]>>
    /\ pc_pta' = "done"
    /\ UNCHANGED <<dataset_vars, inputs_vars, repeat_vars,
                   flag_vars, modeling_vars, distance_vars, engineer_vars, PTA, pta_window,
                   bin_size, bins, pta_edges>>

NextPTA ==
    \/ MakeBins
    \/ BinHalf
    \/ SortByCenter

SpecPTA == InitPTA /\ [][NextPTA]_vars

----------------------------------------------------------------------------
(* modeling/core.py: feature_engineer_sales, the categorical fields zoning,
   building_code_description and neighborhood. A string is <<id, pad>>, pad
   being 1 when it carries surrounding blanks; NaN and "Other" are the
   strings below *)

N == 25

NaN == <<-1, 0>>

Other == <<0, 0>>

\* the columns of the "Other" loop, line 270
OtherColumns == <<"zoning", "building_code_description">>

\* a sales table of `size` rows: zoning takes `zonings` values round robin,
\* building_code_description `codes` values, neighborhood `hoods` values;
\* `odd` makes the first row's zoning a padded copy of the second value (1)
\* or NaN (2), and `nohood` is the row without a neighborhood, if any
SalesTable(size, zonings, codes, hoods, odd, nohood) ==
    [ r \in 1..size |->
        [ zoning |-> IF r = 1 /\ odd = 1 THEN <<2, 1>>
                     ELSE IF r = 1 /\ odd = 2 THEN NaN
                     ELSE <<((r - 1) % zonings) + 1, 0>>,
          building_code_description |-> <<((r - 1) % codes) + 1, 0>>,
          neighborhood |-> IF r = nohood THEN NaN ELSE <<((r - 1) % hoods) + 1, 0>> ] ]

SalesTableChoices ==
    { SalesTable(size, z, c, h, odd, nohood) :
        size \in {4, N + 1, 2 * N + 1, 2 * N + 3},
        z \in {3, N, N + 1, N + 2},
        c \in {2, N + 1},
        h \in {3, N + 2},
        odd \in {0, 1, 2},
        nohood \in {0, 2} }

RawColumnChoices ==
    { {"zoning", "building_code_description", "neighborhood"},
      {"building_code_description", "neighborhood"} }

\* .str.strip()
Strip(v) == <<v[1], 0>>

\* line 250: dropna(subset=["neighborhood"])
DropNoNeighborhood(t) == SelectSeq(t, LAMBDA row : row.neighborhood # NaN)

\* value_counts(dropna=False): the number of rows of each value
ValueCounts(t, c) ==
    [ v \in { t[k][c] : k \in DOMAIN t } |->
        Cardinality({ k \in DOMAIN t : t[k][c] = v }) ]

\* the subsets of S with k elements
RECURSIVE KSubsets(_, _)
KSubsets(S, k) ==
    IF k = 0 THEN {{}}
    ELSE IF Cardinality(S) < k THEN {}
    ELSE LET m == CHOOSE x \in S : TRUE
         IN  { T \cup {m} : T \in KSubsets(S \ {m}, k - 1) }
             \cup KSubsets(S \ {m}, k)

\* variant: any n values head the counts
HeadChoices_any(counts, n) ==
    IF Cardinality(DOMAIN counts) <= n THEN { DOMAIN counts }
    ELSE { DOMAIN counts \ T :
             T \in KSubsets(DOMAIN counts, Cardinality(DOMAIN counts) - n) }

\* the values that .iloc[N:] can leave out of the counts sorted by falling
\* count: the first n values; values of equal count come in an order the
\* sort does not fix
HeadChoices(counts, n) ==
    IF Cardinality(DOMAIN counts) <= n THEN { DOMAIN counts }
    ELSE LET c == CHOOSE x \in { counts[v] : v \in DOMAIN counts } :
                    /\ Cardinality({ v \in DOMAIN counts : counts[v] > x }) < n
                    /\ Cardinality({ v \in DOMAIN counts : counts[v] >= x }) >= n
             above == { v \in DOMAIN counts : counts[v] > c }
             tied == { v \in DOMAIN counts : counts[v] = c }
         IN  { (above \cup tied) \ T :
                 T \in KSubsets(tied, Cardinality(above) + Cardinality(tied) - n) }

\* lines 185-186 with line 272: strip the column, replace every value that
\* is not among the head values by "Other"
add_other_category(t, c, head) ==
    [ k \in DOMAIN t |->
        [ t[k] EXCEPT ![c] = IF Strip(t[k][c]) \in head
                             THEN Strip(t[k][c]) ELSE Other ] ]

InitEngineer ==
    /\ IdleFlags
    /\ IdleModeling
    /\ IdleDistance
    /\ IdlePTA
    /\ IdleDataset
    /\ IdleRepeat
    /\ IdleInputs
    /\ raw_sales \in SalesTableChoices
    /\ raw_columns \in RawColumnChoices
    /\ engineered = <<>>
    /\ other_col = 0
    /\ pc_engineer = "format"

\* lines 180-266: the formatting chain, of which these fields see the
\* column selection and the dropna on neighborhood
FormatSales ==
    /\ pc_engineer = "format"
    /\ engineered' = DropNoNeighborhood(raw_sales)
    /\ pc_engineer' = "other"
    /\ UNCHANGED <<dataset_vars, inputs_vars, repeat_vars,
                   flag_vars, modeling_vars, distance_vars, pta_vars,
                   raw_sales, raw_columns, other_col>>

\* lines 270-272: one iteration of the loop over the two columns
AddOtherCategory ==
    /\ pc_engineer = "other"
    /\ other_col < Len(OtherColumns)
    /\ LET col == OtherColumns[other_col + 1]
       IN  IF col \in raw_columns
           THEN LET stripped == [ k \in DOMAIN engineered |->
                                   [ engineered[k] EXCEPT ![col] = Strip(@) ] ]
                IN  \E head \in HeadChoices(ValueCounts(stripped, col), N) :
                        engineered' = add_other_category(engineered, col, head)
           ELSE UNCHANGED engineered
    /\ other_col' = other_col + 1
    /\ UNCHANGED <<dataset_vars, inputs_vars, repeat_vars,
                   flag_vars, modeling_vars, distance_vars, pta_vars,
                   raw_sales, raw_columns, pc_engineer>>

\* lines 274-279: set the categorical dtypes, return
ReturnEngineered ==
    /\ pc_engineer = "other"
    /\ other_col = Len(OtherColumns)
    /\ pc_engineer' = "done"
    /\ UNCHANGED <<dataset_vars, inputs_vars, repeat_vars,
                   flag_vars, modeling_vars, distance_vars, pta_vars,
                   raw_sales, raw_columns, engineered, other_col>>

NextEngineer ==
    \/ FormatSales
    \/ AddOtherCategory
    \/ ReturnEngineered

SpecEngineer == InitEngineer /\ [][NextEngineer]_vars

----------------------------------------------------------------------------
(* Dataset.get (datasets/core.py): the calls of get on one dataset class    *)
(* with the same keyword arguments, so on one cache directory.  The content  *)
(* of a file is the number of the call that wrote it, 0 for a file that was  *)
(* there before the first call.                                              *)

MaxCalls == 3

File(e, c) == [ exists |-> e, content |-> c ]

\* lines 74-76: a missing directory makes the call a fresh one
Fresh(dir, fresh) == IF ~ dir THEN TRUE ELSE fresh

\* variant: fresh is not consulted
Downloads_missing(dir, file, fresh) == ~ file.exists

\* line 78: whether the call takes the download branch
Downloads(dir, file, fresh) == ~ file.exists \/ Fresh(dir, fresh)

\* the record of one call: its argument, the files before and after it,
\* whether download was invoked and whether the call raised
Call(fresh, invoked, raised, dir_after, file_after, meta_after) ==
    [ fresh |-> fresh, invoked |-> invoked, raised |-> raised,
      dir_before |-> cache_dir, file_before |-> data_file,
      meta_before |-> meta_json,
      dir_after |-> dir_after, file_after |-> file_after,
      meta_after |-> meta_after ]

\* the cache before the first call: a file lies in an existing directory
InitDataset ==
    /\ IdleFlags
    /\ IdleModeling
    /\ IdleDistance
    /\ IdlePTA
    /\ IdleEngineer
    /\ IdleRepeat
    /\ IdleInputs
    /\ cache_dir \in BOOLEAN
    /\ data_file \in { File(e, 0) : e \in { FALSE, cache_dir } }
    /\ meta_json \in { File(e, 0) : e \in { FALSE, cache_dir } }
    /\ calls = <<>>

\* lines 63-93, download branch: the directory is made, download returns,
\* the data file and then meta.json are written
get_download ==
    \E fresh \in BOOLEAN :
        /\ Len(calls) < MaxCalls
        /\ Downloads(cache_dir, data_file, fresh)
        /\ cache_dir' = TRUE
        /\ data_file' = File(TRUE, Len(calls) + 1)
        /\ meta_json' = File(TRUE, Len(calls) + 1)
        /\ calls' = Append(calls, Call(fresh, TRUE, FALSE, TRUE,
                                       data_file', meta_json'))
        /\ UNCHANGED <<inputs_vars, repeat_vars, flag_vars, modeling_vars, distance_vars, pta_vars,
                       engineer_vars>>

\* lines 63-81, download branch: the directory is made and download raises
get_download_raises ==
    \E fresh \in BOOLEAN :
        /\ Len(calls) < MaxCalls
        /\ Downloads(cache_dir, data_file, fresh)
        /\ cache_dir' = TRUE
        /\ calls' = Append(calls, Call(fresh, TRUE, TRUE, TRUE,
                                       data_file, meta_json))
        /\ UNCHANGED <<inputs_vars, repeat_vars, flag_vars, modeling_vars, distance_vars, pta_vars,
                       engineer_vars, data_file, meta_json>>

\* lines 63-93, else branch: the data file is read and formatted
get_read ==
    \E fresh \in BOOLEAN :
        /\ Len(calls) < MaxCalls
        /\ ~ Downloads(cache_dir, data_file, fresh)
        /\ calls' = Append(calls, Call(fresh, FALSE, FALSE, cache_dir,
                                       data_file, meta_json))
        /\ UNCHANGED <<inputs_vars, repeat_vars, flag_vars, modeling_vars, distance_vars, pta_vars,
                       engineer_vars, cache_dir, data_file, meta_json>>

NextDataset ==
    \/ get_download
    \/ get_download_raises
    \/ get_read

SpecDataset == InitDataset /\ [][NextDataset]_vars

----------------------------------------------------------------------------
(* feature_engineer_sales called again and again (modeling/core.py): the    *)
(* caller holds two sales tables and passes one of them at each call.  The   *)
(* sort of value_counts orders values of equal count by a rule that is the   *)
(* same at every call of the process.                                        *)

MaxEngineerCalls == 3

\* the first table: more than N zoning values, the N-th count a tie
RepeatTableChoices ==
    { SalesTable(size, z, c, 3, odd, nohood) :
        size \in {2 * N + 1, 2 * N + 3},
        z \in {N + 1, N + 2},
        c \in {2, N + 1},
        odd \in {0, 1},
        nohood \in {0, 2} }

\* value_counts(dropna=False) sorted by falling count, without .iloc[N:]:
\* the first n values, values of equal count taken in the process's order
SortedHead(counts, n, order) ==
    IF Cardinality(DOMAIN counts) <= n THEN DOMAIN counts
    ELSE LET c == CHOOSE x \in { counts[v] : v \in DOMAIN counts } :
                    /\ Cardinality({ v \in DOMAIN counts : counts[v] > x }) < n
                    /\ Cardinality({ v \in DOMAIN counts : counts[v] >= x }) >= n
             above == { v \in DOMAIN counts : counts[v] > c }
             tied == { v \in DOMAIN counts : counts[v] = c }
             key(v) == 2 * v[1] + v[2]
             ahead(v) == { w \in tied : IF order = "first" THEN key(w) < key(v)
                                        ELSE key(w) > key(v) }
         IN  above \cup { v \in tied :
                            Cardinality(ahead(v)) < n - Cardinality(above) }

\* lines 163-279 on the table t with the columns cs
feature_engineer_sales(t, cs, order) ==
    LET other(o, col) ==
            IF col \in cs
            THEN LET stripped == [ k \in DOMAIN o |->
                                     [ o[k] EXCEPT ![col] = Strip(@) ] ]
                 IN  add_other_category(
                         o, col, SortedHead(ValueCounts(stripped, col), N, order))
            ELSE o
    IN  other(other(DropNoNeighborhood(t), OtherColumns[1]), OtherColumns[2])

\* variant: the steps work on the table that was passed
ArgumentAfter_inplace(t, o) == o

\* lines 196-198: sales.loc[:, ...] makes a new table and every later step
\* works on it, so the table that was passed stays as it was
ArgumentAfter(t, o) == t

InitRepeat ==
    /\ IdleFlags
    /\ IdleModeling
    /\ IdleDistance
    /\ IdlePTA
    /\ IdleDataset
    /\ IdleEngineer
    /\ IdleInputs
    /\ \E t \in RepeatTableChoices,
          u \in { SalesTable(4, 3, 2, 3, 0, 0),
                  SalesTable(2 * N + 3, N + 2, 2, 3, 2, 0) } :
           sales_tables = <<t, u>>
    /\ tie_order \in { "first", "last" }
    /\ results = <<>>

\* lines 163-279: one call, on one of the caller's tables
CallEngineer ==
    \E id \in DOMAIN sales_tables, cs \in RawColumnChoices :
        LET o == feature_engineer_sales(sales_tables[id], cs, tie_order)
        IN  /\ Len(results) < MaxEngineerCalls
            /\ results' = Append(results,
                                 [ sales |-> id, columns |-> cs, out |-> o ])
            /\ sales_tables' =
                   [ sales_tables EXCEPT
                       ![id] = ArgumentAfter(sales_tables[id], o) ]
            /\ UNCHANGED <<dataset_vars, inputs_vars, flag_vars, modeling_vars,
                           distance_vars, pta_vars, engineer_vars, tie_order>>

NextRepeat == CallEngineer

SpecRepeat == InitRepeat /\ [][NextRepeat]_vars

----------------------------------------------------------------------------
(* get_modeling_inputs on the rows of a table (modeling/core.py 282-438).   *)
(* A table is [index, rows, columns, categories]: the index labels, the      *)
(* rows by position, the names of its columns, and for the columns of        *)
(* category dtype their categories.  A cell is <<v, 0>>, NaN or -inf; a row  *)
(* carries in `sale` the position the sale had in the argument.              *)

MaxInputRows == 3

NegInf == <<0, -1>>

\* the columns the tables of this model have, in column order
ColumnOrder ==
    <<"neighborhood", "zip_code", "zoning", "depth", "sale_year",
      "ln_sale_price_indexed", "sold_in_year_built", "spacetime_flag_after_1">>

\* the columns of this model that the patterns of CATEGORICAL match
CategoricalColumns ==
    { "neighborhood", "zoning", "sold_in_year_built", "spacetime_flag_after_1" }

IsFlag(c) == c = "spacetime_flag_after_1"

\* a sales table of n rows: `dup` repeats index labels, zoning takes z
\* values round robin, and the rows depthnan, inf and nohood have no depth,
\* a price of zero, and no neighborhood
InputTable(n, dup, z, depthnan, inf, nohood, flagged) ==
    [ index |-> [ r \in 1..n |-> IF dup THEN (r + 1) \div 2 ELSE r ],
      rows  |-> [ r \in 1..n |->
          [ sale |-> r,
            neighborhood |-> IF r = nohood THEN NaN ELSE <<((r - 1) % 2) + 1, 0>>,
            zip_code |-> <<19100 + (r % 2), 0>>,
            zoning |-> <<((r - 1) % z) + 1, 0>>,
            depth |-> IF r = depthnan THEN NaN ELSE <<10 * r, 0>>,
            sale_year |-> <<2006 + (r % 2), 0>>,
            ln_sale_price_indexed |-> IF r = inf THEN NegInf ELSE <<10 + r, 0>>,
            sold_in_year_built |-> <<0, 0>>,
            spacetime_flag_after_1 |-> <<r % 2, 0>> ] ],
      columns |-> (Range(ColumnOrder) \ {"sold_in_year_built"})
                    \ (IF flagged THEN {} ELSE {"spacetime_flag_after_1"}),
      categories |-> [ c \in {} |-> {} ] ]

InputTableChoices ==
    { InputTable(MaxInputRows, dup, z, depthnan, inf, nohood, flagged) :
        dup \in BOOLEAN, z \in {1, 3}, depthnan \in {0, 3}, inf \in {0, 1},
        nohood \in {0, 2}, flagged \in BOOLEAN }

\* the table t without the rows at the positions in `drop`
DropRows(t, drop) ==
    LET pos == SelectSeq([ k \in DOMAIN t.rows |-> k ],
                         LAMBDA k : k \notin drop)
    IN  [ t EXCEPT !.index = [ k \in DOMAIN pos |-> t.index[pos[k]] ],
                   !.rows = [ k \in DOMAIN pos |-> t.rows[pos[k]] ] ]

\* the values of column c that are not NaN
Observed(t, c) == { t.rows[k][c] : k \in DOMAIN t.rows } \ { NaN }

\* lines 163-279 on the rows: the rows with a neighborhood, the added
\* column sold_in_year_built, and category dtype for the columns CATEGORICAL
\* matches, with the values then present as categories
EngineeredTable(t) ==
    LET o == DropRows(t, { k \in DOMAIN t.rows : t.rows[k].neighborhood = NaN })
        cs == t.columns \cup {"sold_in_year_built"}
    IN  [ o EXCEPT !.columns = cs,
                   !.categories = [ c \in cs \cap CategoricalColumns |->
                                      Observed(o, c) ] ]

\* lines 323-350 on the columns of the table
TrimmedColumns(cs, uf, e, panel) ==
    (IF uf.given
     THEN cs \ { c \in BUILDING_CHARACTERISTICS :
                   c \notin Range(PanelFeatures(uf.list, panel)) }
     ELSE cs) \ ((REMOVE \ {e}) \ (IF panel THEN {"sale_year"} ELSE {}))

\* lines 353-354: DataFrame.dropna() keeps the rows without a NaN
DropNaN(t) ==
    DropRows(t, { k \in DOMAIN t.rows :
                    \E c \in t.columns : t.rows[k][c] = NaN })

\* lines 357-359
IndexCols(panel) == IF panel THEN {"neighborhood", "sale_year"} ELSE {}

\* dtype kind "O": the columns of strings and the category columns
KindO(t, c) ==
    c \in { "neighborhood", "zip_code", "zoning" } \/ c \in DOMAIN t.categories

\* lines 362-366
CatCols(t, e, panel) ==
    SelectSeq(ColumnOrder, LAMBDA c : /\ c \in t.columns
                                      /\ KindO(t, c)
                                      /\ c \notin IndexCols(panel))

\* variant: the response is not left out
NumCols_endog(t, e, panel) ==
    SelectSeq(ColumnOrder, LAMBDA c : /\ c \in t.columns
                                      /\ ~ KindO(t, c)
                                      /\ c \notin IndexCols(panel))

\* variant: the index columns are not left out
NumCols_index(t, e, panel) ==
    SelectSeq(ColumnOrder, LAMBDA c : /\ c \in t.columns
                                      /\ ~ KindO(t, c)
                                      /\ c # e)

\* lines 367-371
NumCols(t, e, panel) ==
    SelectSeq(ColumnOrder, LAMBDA c : /\ c \in t.columns
                                      /\ ~ KindO(t, c)
                                      /\ c # e
                                      /\ c \notin IndexCols(panel))

\* the name of a column of X: a column as it is, or the dummy of a level
Name(c) == [ col |-> c, level |-> NaN ]

\* the values of S in rising order
RECURSIVE Sorted(_)
Sorted(S) ==
    IF S = {} THEN <<>>
    ELSE LET m == CHOOSE x \in S : \A y \in S : x[1] <= y[1]
         IN  <<m>> \o Sorted(S \ {m})

\* astype("category"): a column of category dtype keeps its categories, an
\* object column gets the values its rows hold
Levels(t, c) ==
    IF c \in DOMAIN t.categories THEN t.categories[c] ELSE Observed(t, c)

\* lines 378-382: get_dummies(..., drop_first=True) makes one column per
\* level but the first
Dummies(t, c) ==
    LET levels == Sorted(Levels(t, c))
    IN  [ j \in 1..(Len(levels) - 1) |-> [ col |-> c, level |-> levels[j + 1] ] ]

\* lines 374-384: the columns of oneHotData
RECURSIVE OneHotColumns(_, _)
OneHotColumns(t, cats) ==
    IF cats = <<>> THEN <<>>
    ELSE (IF IsFlag(Head(cats)) THEN <<Name(Head(cats))>>
          ELSE Dummies(t, Head(cats)))
         \o OneHotColumns(t, Tail(cats))

\* the pairs (a, b) of a left row and a right row with the same index label,
\* by left row and then by right row, up to left row a
RECURSIVE MergePairs(_, _)
MergePairs(idx, a) ==
    IF a = 0 THEN <<>>
    ELSE MergePairs(idx, a - 1)
         \o SelectSeq([ b \in DOMAIN idx |-> <<a, b>> ],
                      LAMBDA q : idx[q[2]] = idx[a])

\* lines 392-393: pd.merge(features, oneHotData, left_index=True,
\* right_index=True) joins every row with every row of the same label
MergeRows(t) == MergePairs(t.index, Len(t.index))

\* line 394: replace([inf, -inf], nan) in every column
ReplaceInf(row) ==
    [ c \in DOMAIN row |-> IF c # "sale" /\ row[c] = NegInf THEN NaN
                           ELSE row[c] ]

InitInputs ==
    /\ IdleFlags
    /\ IdleDistance
    /\ IdlePTA
    /\ IdleEngineer
    /\ IdleDataset
    /\ IdleRepeat
    /\ use_features \in
           { [given |-> FALSE, list |-> <<>>],
             [given |-> TRUE, list |-> <<"zoning">>],
             [given |-> TRUE, list |-> <<"depth">>],
             [given |-> TRUE, list |-> <<"neighborhood", "zoning", "depth">>] }
    /\ use_features_passed = use_features
    /\ endog \in { "ln_sale_price_indexed", "sale_year", "zip_code", "zoning" }
    /\ as_panel \in BOOLEAN
    /\ engineer_sales \in BOOLEAN
    /\ features = {}
    /\ pc_modeling = "idle"
    /\ sales_in \in InputTableChoices
    /\ dropna \in BOOLEAN
    /\ frame = <<>>
    /\ retained = <<>>
    /\ encoded = <<>>
    /\ X_out = <<>>
    /\ Y_out = <<>>
    /\ pc_inputs = "assert"

\* line 315
InputsAssert ==
    /\ pc_inputs = "assert"
    /\ pc_inputs' = IF endog \in REMOVE THEN "engineer" ELSE "AssertionError"
    /\ UNCHANGED <<dataset_vars, repeat_vars, flag_vars, modeling_vars,
                   distance_vars, pta_vars, engineer_vars, sales_in, dropna,
                   frame, retained, encoded, X_out, Y_out>>

\* lines 317-321
InputsEngineer ==
    /\ pc_inputs = "engineer"
    /\ frame' = IF engineer_sales THEN EngineeredTable(sales_in) ELSE sales_in
    /\ pc_inputs' = "trim"
    /\ UNCHANGED <<dataset_vars, repeat_vars, flag_vars, modeling_vars,
                   distance_vars, pta_vars, engineer_vars, sales_in, dropna,
                   retained, encoded, X_out, Y_out>>

\* lines 323-354: the columns are trimmed, the rows with a NaN dropped; the
\* second list.remove raises ValueError when endog is sale_year
InputsTrim ==
    /\ pc_inputs = "trim"
    /\ use_features' = IF use_features.given
                       THEN [ use_features EXCEPT
                                !.list = PanelFeatures(use_features.list, as_panel) ]
                       ELSE use_features
    /\ IF as_panel /\ endog = "sale_year"
       THEN /\ pc_inputs' = "ValueError"
            /\ UNCHANGED <<frame, retained>>
       ELSE LET trimmed == [ frame EXCEPT
                               !.columns = TrimmedColumns(frame.columns,
                                               use_features, endog, as_panel),
                               !.categories =
                                   [ c \in DOMAIN frame.categories
                                       \cap TrimmedColumns(frame.columns,
                                               use_features, endog, as_panel)
                                     |-> frame.categories[c] ] ]
            IN  /\ frame' = IF dropna THEN DropNaN(trimmed) ELSE trimmed
                /\ retained' = frame'
                /\ pc_inputs' = "encode"
    /\ UNCHANGED <<dataset_vars, repeat_vars, flag_vars, distance_vars,
                   pta_vars, engineer_vars, use_features_passed, endog,
                   as_panel, engineer_sales, features, pc_modeling, sales_in,
                   dropna, encoded, X_out, Y_out>>

\* lines 357-384: the column lists and oneHotData; pd.concat raises
\* ValueError on an empty list
InputsEncode ==
    /\ pc_inputs = "encode"
    /\ LET cats == CatCols(frame, endog, as_panel)
       IN  IF cats = <<>>
           THEN /\ pc_inputs' = "ValueError"
                /\ UNCHANGED encoded
           ELSE /\ encoded' = [ cat_cols |-> cats,
                                num_cols |-> NumCols(frame, endog, as_panel),
                                columns |-> OneHotColumns(frame, cats) ]
                /\ pc_inputs' = "merge"
    /\ UNCHANGED <<dataset_vars, repeat_vars, flag_vars, modeling_vars,
                   distance_vars, pta_vars, engineer_vars, sales_in, dropna,
                   frame, retained, X_out, Y_out>>

\* lines 386-398: the flags are dropped, the tables merged on the index,
\* the infinite values replaced and the encoded columns dropped.  A row of
\* the merged table carries in `ohe_sale` the sale its encoded columns are of
InputsMerge ==
    /\ pc_inputs = "merge"
    /\ LET pairs == MergeRows(frame)
       IN  frame' =
             [ frame EXCEPT
                 !.index = [ k \in DOMAIN pairs |-> frame.index[pairs[k][1]] ],
                 !.rows = [ k \in DOMAIN pairs |->
                              [ row |-> ReplaceInf(frame.rows[pairs[k][1]]),
                                ohe_sale |-> frame.rows[pairs[k][2]].sale ] ],
                 !.columns = { c \in frame.columns :
                                 ~ IsFlag(c) /\ c \notin Range(encoded.cat_cols) } ]
    /\ pc_inputs' = "split"
    /\ UNCHANGED <<dataset_vars, repeat_vars, flag_vars, modeling_vars,
                   distance_vars, pta_vars, engineer_vars, sales_in, dropna,
                   retained, encoded, X_out, Y_out>>

\* lines 401-438: Y, the index, X with the constant, the reset of the
\* index and the panel index.  features[endog] raises KeyError when the
\* column was encoded or trimmed away, the column transformer raises
\* ValueError when a numerical column is no longer in the table
InputsReturn ==
    /\ pc_inputs = "split"
    /\ IF endog \notin frame.columns
       THEN /\ pc_inputs' = "KeyError"
            /\ UNCHANGED <<X_out, Y_out>>
       ELSE IF \E c \in Range(encoded.num_cols) : c \notin frame.columns
       THEN /\ pc_inputs' = "ValueError"
            /\ UNCHANGED <<X_out, Y_out>>
       ELSE LET index == [ k \in DOMAIN frame.rows |->
                             IF as_panel
                             THEN <<frame.rows[k].row.neighborhood,
                                    frame.rows[k].row.sale_year>>
                             ELSE <<k - 1>> ]
            IN  /\ Y_out' = [ index |-> index,
                              rows |-> [ k \in DOMAIN frame.rows |->
                                           frame.rows[k].row.sale ],
                              values |-> [ k \in DOMAIN frame.rows |->
                                             frame.rows[k].row[endog] ] ]
                /\ X_out' = [ columns |-> encoded.columns
                                \o [ j \in DOMAIN encoded.num_cols |->
                                       Name(encoded.num_cols[j]) ]
                                \o <<Name("const")>>,
                              index |-> index,
                              rows |-> [ k \in DOMAIN frame.rows |->
                                           [ sale |-> frame.rows[k].row.sale,
                                             ohe_sale |-> frame.rows[k].ohe_sale ] ] ]
                /\ pc_inputs' = "done"
    /\ UNCHANGED <<dataset_vars, repeat_vars, flag_vars, modeling_vars,
                   distance_vars, pta_vars, engineer_vars, sales_in, dropna,
                   frame, retained, encoded>>

NextInputs ==
    \/ InputsAssert
    \/ InputsEngineer
    \/ InputsTrim
    \/ InputsEncode
    \/ InputsMerge
    \/ InputsReturn

SpecInputs == InitInputs /\ [][NextInputs]_vars

----------------------------------------------------------------------------
(* Properties of the matcher *)

\* C1: for every yielded group and every sale the radius query returned,
\* with dt = sale.time_offset - event.time_offset, the sale is in 'after'
\* iff 0 < dt < after_days*86400, in 'before' iff -before_days*86400 < dt < 0,
\* and in neither otherwise (in particular when dt = 0).
C1_TimeClassification ==
    \A n \in 1..Len(groups) :
        /\ groups[n].indices.after \subseteq DOMAIN groups[n].dt
        /\ groups[n].indices.before \subseteq DOMAIN groups[n].dt
        /\ \A k \in DOMAIN groups[n].dt :
            LET dt == sales[k].time_offset - homicides[n].time_offset
            IN  /\ k \in groups[n].indices.after
                     <=> (0 < dt /\ dt < windows[2] * 86400)
                /\ k \in groups[n].indices.before
                     <=> ((0 - windows[1]) * 86400 < dt /\ dt < 0)
                /\ dt = 0 => /\ k \notin groups[n].indices.after
                             /\ k \notin groups[n].indices.before

\* C1 witness: the groups yielded so far hold a sale classified 'after', a
\* sale classified 'before', a returned sale with dt = 0 and a returned sale
\* on the edge of the window, the last two in neither set.
C1_Witness ==
    /\ \E n \in 1..Len(groups) : groups[n].indices.after # {}
    /\ \E n \in 1..Len(groups) : groups[n].indices.before # {}
    /\ \E n \in 1..Len(groups) : \E k \in DOMAIN groups[n].dt :
           /\ groups[n].dt[k] = 0
           /\ k \notin groups[n].indices.after \cup groups[n].indices.before
    /\ \E n \in 1..Len(groups) : \E k \in DOMAIN groups[n].dt :
           /\ groups[n].dt[k] = (0 - windows[1]) * 86400
           /\ k \notin groups[n].indices.after \cup groups[n].indices.before

\* C2 (as claimed): the radius boundary is strict: a sale at distance exactly
\* r from the event is in neither set of the event's group, and a sale at a
\* distance below r whose time offset is inside the window is in the group.
C2_StrictRadius ==
    \A n \in 1..Len(groups) : \A k \in 1..Len(sales) :
        LET r == 264 * SeqMax(<<0>> \o distances)
            d2 == (homicides[n].x - sales[k].x) * (homicides[n].x - sales[k].x)
                  + (homicides[n].y - sales[k].y) * (homicides[n].y - sales[k].y)
            dt == sales[k].time_offset - homicides[n].time_offset
            inWindow == \/ (0 < dt /\ dt < windows[2] * 86400)
                        \/ ((0 - windows[1]) * 86400 < dt /\ dt < 0)
            matched == k \in groups[n].indices.after \cup groups[n].indices.before
        IN  /\ d2 = r * r => ~ matched
            /\ (d2 < r * r /\ inWindow) => matched

\* C3 (as claimed): in the scenario, sale 1 is matched 'after', sale 2
\* 'before', and sales 3, 4 and 5 are matched to no homicide.
C3_ScenarioAsClaimed ==
    ( /\ homicides = ScenarioHomicides
      /\ sales = ScenarioSales
      /\ distances = <<1>>
      /\ windows = <<10, 10>>
      /\ i = Len(homicides) )
    => /\ \E n \in 1..3 : 1 \in groups[n].indices.after
       /\ \A n \in 1..3 : 1 \notin groups[n].indices.before
       /\ \E n \in 1..3 : 2 \in groups[n].indices.before
       /\ \A n \in 1..3 : 2 \notin groups[n].indices.after
       /\ \A n \in 1..3 : \A k \in {3, 4, 5} :
              k \notin groups[n].indices.after \cup groups[n].indices.before

\* C3 (amended): in the scenario, sales 1 and 3 are matched 'after' by
\* homicides 1 and 2 (sale 3 lies 150 ft and 50 ft from them), sale 2 is
\* matched 'before' by homicides 1 and 2, homicide 3 matches nothing, and
\* sales 4 and 5 are matched to no homicide; the flags of the single band
\* are after = 1 for sales 1 and 3, before = 1 for sale 2, and 0 elsewhere.
C3_ScenarioAmended ==
    ( /\ homicides = ScenarioHomicides
      /\ sales = ScenarioSales
      /\ distances = <<1>>
      /\ windows = <<10, 10>>
      /\ i = Len(homicides) )
    => /\ \A n \in {1, 2} : /\ groups[n].indices.after = {1, 3}
                            /\ groups[n].indices.before = {2}
       /\ groups[3].indices.after = {}
       /\ groups[3].indices.before = {}
       /\ \A k \in 1..5 :
            /\ flags[k][<<"after", 1>>] = (IF k \in {1, 3} THEN 1 ELSE 0)
            /\ flags[k][<<"before", 1>>] = (IF k = 2 THEN 1 ELSE 0)

\* C3 witness: the scenario has been run to the end.
C3_Witness ==
    /\ homicides = ScenarioHomicides
    /\ sales = ScenarioSales
    /\ distances = <<1>>
    /\ windows = <<10, 10>>
    /\ pc = "done"
    /\ flags[3][<<"after", 1>>] = 1

----------------------------------------------------------------------------
(* Properties of the flag columns *)

\* C4 (as claimed): for each band and direction, a sale's flag is 1 exactly
\* when the sale's minimum matching distance (the smallest distance to any
\* homicide matching it in that direction) falls in that band, and 0
\* otherwise, so that a matched sale has the flag set in exactly one band.
\* Bands are read as the source tests them, [lo, hi), and 'exactly one band'
\* is asked only of a sale whose minimum matching distance is below the
\* outermost boundary, so that the pair lying exactly on the radius (C5) is
\* not what refutes the statement.
C4_MinDistanceBand ==
    i = Len(homicides) =>
    \A k \in 1..Len(sales) : \A tag \in {"before", "after"} :
        LET E == IF distances[1] # 0 THEN <<0>> \o distances ELSE distances
            M == { n \in 1..Len(groups) : k \in groups[n].indices[tag] }
            D2 == { (homicides[n].x - sales[k].x) * (homicides[n].x - sales[k].x)
                    + (homicides[n].y - sales[k].y) * (homicides[n].y - sales[k].y)
                    : n \in M }
            minD2 == CHOOSE m \in D2 : \A o \in D2 : m <= o
        IN  /\ \A j \in 1..(Len(E) - 1) :
                 flags[k][<<tag, E[j + 1]>>] = 1
                   <=> /\ M # {}
                       /\ (264 * E[j]) * (264 * E[j]) <= minD2
                       /\ minD2 < (264 * E[j + 1]) * (264 * E[j + 1])
            /\ \A j \in 1..(Len(E) - 1) :
                 flags[k][<<tag, E[j + 1]>>] \in {0, 1}
            /\ (M # {} /\ minD2 < (264 * SeqMax(E)) * (264 * SeqMax(E))) =>
                 Cardinality({ j \in 1..(Len(E) - 1) :
                                   flags[k][<<tag, E[j + 1]>>] = 1 }) = 1

\* C4 (amended): for each band [lo, hi) and direction, a sale's flag is 1
\* when its minimum matching distance falls in that band; a flag that is 1
\* belongs to a sale matched in that direction whose minimum matching
\* distance is below the band's upper boundary (the band of the minimum or a
\* farther band holding another matching homicide), so the flag is 0 in every
\* nearer band and for an unmatched sale; a sale whose minimum matching
\* distance is below the outermost boundary has the flag set in at least one
\* band, possibly in several.
C4_MinDistanceBandSet ==
    i = Len(homicides) =>
    \A k \in 1..Len(sales) : \A tag \in {"before", "after"} :
        LET E == IF distances[1] # 0 THEN <<0>> \o distances ELSE distances
            M == { n \in 1..Len(groups) : k \in groups[n].indices[tag] }
            D2 == { (homicides[n].x - sales[k].x) * (homicides[n].x - sales[k].x)
                    + (homicides[n].y - sales[k].y) * (homicides[n].y - sales[k].y)
                    : n \in M }
            minD2 == CHOOSE m \in D2 : \A o \in D2 : m <= o
            rmax == 264 * SeqMax(E)
        IN  /\ \A j \in 1..(Len(E) - 1) :
                 /\ ( /\ M # {}
                      /\ (264 * E[j]) * (264 * E[j]) <= minD2
                      /\ minD2 < (264 * E[j + 1]) * (264 * E[j + 1]) )
                    => flags[k][<<tag, E[j + 1]>>] = 1
                 /\ flags[k][<<tag, E[j + 1]>>] \in {0, 1}
                 /\ flags[k][<<tag, E[j + 1]>>] = 1
                    => /\ M # {}
                       /\ minD2 < (264 * E[j + 1]) * (264 * E[j + 1])
            /\ (M # {} /\ minD2 < rmax * rmax)
                 => \E j \in 1..(Len(E) - 1) : flags[k][<<tag, E[j + 1]>>] = 1

\* C4 witness: every event has been processed and a sale is flagged 'after'
\* in two bands: by a homicide 0 ft away (its minimum matching distance, in
\* the inner band) and by a homicide 264 ft away (in the outer band).
C4_Witness ==
    /\ i = Len(homicides)
    /\ distances = <<0, 1, 2>>
    /\ \E k \in 1..Len(sales) :
         /\ flags[k][<<"after", 1>>] = 1
         /\ flags[k][<<"after", 2>>] = 1
         /\ \E n \in 1..Len(groups) :
              /\ k \in groups[n].indices.after
              /\ groups[n].dists.after[k] = 0
         /\ \E n \in 1..Len(groups) :
              /\ k \in groups[n].indices.after
              /\ groups[n].dists.after[k] = 264 * 264

\* C5 (as claimed): every (homicide, sale) pair the matcher returns at radius
\* max(distances) has its distance put in exactly one band by the test of
\* add_spacetime_flags, never in none and never in two.
C5_BandPartition ==
    \A n \in 1..Len(groups) : \A tag \in Tags :
        \A k \in groups[n].indices[tag] :
            Cardinality({ j \in 1..(Len(Edges(distances)) - 1) :
                            InBand(groups[n].dists[tag][k],
                                   Edges(distances)[j],
                                   Edges(distances)[j + 1]) }) = 1

\* C6: the flag of a sale for (direction, band) is 1 iff at least one of the
\* homicides processed so far matches the sale in that direction at a
\* distance inside the band [lo, hi), and is 0 iff none does; in particular
\* once every homicide has been processed.
C6_FlagsAreOr ==
    \A k \in 1..Len(sales) :
        LET E == IF distances[1] # 0 THEN <<0>> \o distances ELSE distances
        IN  \A j \in 1..(Len(E) - 1) :
              /\ flags[k][<<"after", E[j + 1]>>] \in {0, 1}
              /\ flags[k][<<"before", E[j + 1]>>] \in {0, 1}
              /\ flags[k][<<"after", E[j + 1]>>] = 1
                 <=> \E n \in 1..i :
                       LET dt == sales[k].time_offset - homicides[n].time_offset
                           d2 == (homicides[n].x - sales[k].x) * (homicides[n].x - sales[k].x)
                                 + (homicides[n].y - sales[k].y) * (homicides[n].y - sales[k].y)
                       IN  /\ 0 < dt /\ dt < windows[2] * 86400
                           /\ (264 * E[j]) * (264 * E[j]) <= d2
                           /\ d2 < (264 * E[j + 1]) * (264 * E[j + 1])
              /\ flags[k][<<"before", E[j + 1]>>] = 1
                 <=> \E n \in 1..i :
                       LET dt == sales[k].time_offset - homicides[n].time_offset
                           d2 == (homicides[n].x - sales[k].x) * (homicides[n].x - sales[k].x)
                                 + (homicides[n].y - sales[k].y) * (homicides[n].y - sales[k].y)
                       IN  /\ (0 - windows[1]) * 86400 < dt /\ dt < 0
                           /\ (264 * E[j]) * (264 * E[j]) <= d2
                           /\ d2 < (264 * E[j + 1]) * (264 * E[j + 1])

\* C6 witness: the table has been returned; one sale's 'after' flag of the
\* inner band is 1 and two distinct homicides match it there, while its
\* 'after' flag of the outer band is 0.
C6_Witness ==
    /\ pc = "done"
    /\ distances = <<0, 1, 2>>
    /\ \E k \in 1..Len(sales) :
         /\ flags[k][<<"after", 1>>] = 1
         /\ flags[k][<<"after", 2>>] = 0
         /\ \E n, m \in 1..Len(groups) :
              /\ n # m
              /\ k \in groups[n].indices.after
              /\ k \in groups[m].indices.after
              /\ groups[n].dists.after[k] < 264 * 264
              /\ groups[m].dists.after[k] < 264 * 264

----------------------------------------------------------------------------
(* Properties of the returned table *)

\* C7 (as claimed): when add_interactions is true the returned table holds,
\* for each band, a single signed column equal to 0.5 * (after - before) for
\* every retained sale, and the raw before and after columns are absent.
C7_SignedInteractionColumn ==
    (pc = "done" /\ add_interactions) =>
    \A d \in FlagDists(distances) :
        /\ <<"before", d>> \notin cols
        /\ <<"after", d>> \notin cols
        /\ \E c \in cols :
             /\ c[2] = d
             /\ \A k \in rows :
                  2 * CellValue(c, k)
                    = flags[k][<<"after", d>>] - flags[k][<<"before", d>>]

\* C8 (as claimed): with exclude_duplicates, a sale flagged both before and
\* after within the same band is absent from the returned table, for every
\* band and every setting of the other options.
C8_DuplicatesExcluded ==
    (pc = "done" /\ exclude_duplicates) =>
    \A k \in 1..Len(sales) : \A d \in FlagDists(distances) :
        (flags[k][<<"before", d>>] = 1 /\ flags[k][<<"after", d>>] = 1)
          => k \notin rows

\* C8 (amended): with exclude_duplicates and add_interactions, a sale flagged
\* both before and after within the same band is absent from the returned
\* table, for every band when trim_by_max_distance is false and for every
\* band but the last of the list when it is true.
C8_DuplicatesExcludedChecked ==
    (pc = "done" /\ exclude_duplicates /\ add_interactions) =>
    \A k \in 1..Len(sales) :
        LET E == IF distances[1] # 0 THEN <<0>> \o distances ELSE distances
        IN  \A j \in 2..Len(E) :
              ( /\ trim_by_max_distance => j < Len(E)
                /\ flags[k][<<"before", E[j]>>] = 1
                /\ flags[k][<<"after", E[j]>>] = 1 )
              => k \notin rows

\* C8 witness: no windowing, exclude_duplicates and add_interactions set; a
\* sale flagged before and after in a checked band is missing from the
\* returned table.
C8_Witness ==
    /\ pc = "done"
    /\ exclude_duplicates /\ add_interactions /\ ~ window_sales
    /\ trim_by_max_distance
    /\ distances = <<0, 1, 2>>
    /\ \E k \in 1..Len(sales) :
         /\ flags[k][<<"before", 1>>] = 1
         /\ flags[k][<<"after", 1>>] = 1
         /\ k \notin rows

\* C9 (as claimed): with exclude_duplicates false, a sale flagged both before
\* and after within the same band is present in the returned table and
\* carries both its before flag and its after flag for that band, each 1.
C9_DuplicatesRetained ==
    (pc = "done" /\ ~ exclude_duplicates) =>
    \A k \in 1..Len(sales) : \A d \in FlagDists(distances) :
        (flags[k][<<"before", d>>] = 1 /\ flags[k][<<"after", d>>] = 1)
          => /\ k \in rows
             /\ <<"before", d>> \in cols
             /\ <<"after", d>> \in cols

\* C9 (amended): with exclude_duplicates false, a sale flagged both before
\* and after within the same band is present in the returned table unless
\* window_sales removed it for its date; with add_interactions false the
\* table carries both its before and its after flag for that band, each 1;
\* with add_interactions true the before column has been dropped and the
\* after column is kept for every band but, under trim_by_max_distance, the
\* last of the list.
C9_DuplicatesRetainedUnlessWindowed ==
    (pc = "done" /\ ~ exclude_duplicates) =>
    \A k \in 1..Len(sales) :
        LET E == IF distances[1] # 0 THEN <<0>> \o distances ELSE distances
            dates == { sales[q].sale_date : q \in 1..Len(sales) }
            first == CHOOSE m \in dates : \A o \in dates : m <= o
            last == CHOOSE m \in dates : \A o \in dates : o <= m
            kept == \/ ~ window_sales
                    \/ /\ sales[k].sale_date >= first + windows[1] * 86400
                       /\ sales[k].sale_date <= last - windows[2] * 86400
        IN  \A j \in 2..Len(E) :
              (flags[k][<<"before", E[j]>>] = 1 /\ flags[k][<<"after", E[j]>>] = 1)
              => /\ k \in rows <=> kept
                 /\ ~ add_interactions
                      => /\ <<"before", E[j]>> \in cols
                         /\ <<"after", E[j]>> \in cols
                 /\ add_interactions
                      => /\ <<"before", E[j]>> \notin cols
                         /\ <<"after", E[j]>> \in cols
                              <=> ~ (trim_by_max_distance /\ j = Len(E))

\* C9 witness: exclude_duplicates and add_interactions are false and the
\* returned table holds a sale with both flags of a band equal to 1.
C9_Witness ==
    /\ pc = "done"
    /\ ~ exclude_duplicates /\ ~ add_interactions
    /\ \E k \in rows : \E d \in FlagDists(distances) :
         /\ flags[k][<<"before", d>>] = 1
         /\ flags[k][<<"after", d>>] = 1
         /\ <<"before", d>> \in cols
         /\ <<"after", d>> \in cols

\* C10: with add_interactions and exclude_duplicates, trim_by_max_distance
\* true applies the duplicate exclusion to every band except the outermost:
\* a sale flagged both before and after in an inner band is absent, and a
\* sale flagged both only in the outermost band is retained (if windowing
\* kept it); with trim_by_max_distance false a sale flagged both in the
\* outermost band is absent.
C10_ControlBandExemption ==
    (pc = "done" /\ add_interactions /\ exclude_duplicates) =>
    \A k \in 1..Len(sales) :
        LET E == IF distances[1] # 0 THEN <<0>> \o distances ELSE distances
            both(j) == /\ flags[k][<<"before", E[j]>>] = 1
                       /\ flags[k][<<"after", E[j]>>] = 1
            dates == { sales[q].sale_date : q \in 1..Len(sales) }
            first == CHOOSE m \in dates : \A o \in dates : m <= o
            last == CHOOSE m \in dates : \A o \in dates : o <= m
            kept == \/ ~ window_sales
                    \/ /\ sales[k].sale_date >= first + windows[1] * 86400
                       /\ sales[k].sale_date <= last - windows[2] * 86400
        IN  /\ trim_by_max_distance =>
                /\ \A j \in 2..(Len(E) - 1) : both(j) => k \notin rows
                /\ ( /\ both(Len(E))
                     /\ \A j \in 2..(Len(E) - 1) : ~ both(j)
                     /\ kept ) => k \in rows
            /\ ~ trim_by_max_distance => (both(Len(E)) => k \notin rows)

\* C10 witness: all three options are set, and the returned table holds a
\* sale flagged both before and after in the outermost of two bands.
C10_Witness ==
    /\ pc = "done"
    /\ add_interactions /\ exclude_duplicates /\ trim_by_max_distance
    /\ distances = <<0, 1, 2>>
    /\ \E k \in rows :
         /\ flags[k][<<"before", 2>>] = 1
         /\ flags[k][<<"after", 2>>] = 1

----------------------------------------------------------------------------
(* Properties of the trimming steps and of the sequence of groups *)

\* C11: when window_sales is true the windowing step removes exactly the
\* sales dated less than before_days after the earliest sale date or less
\* than after_days before the latest sale date of the input sales table; a
\* sale dated exactly on either end is kept; when window_sales is false the
\* step removes nothing.
C11_WindowSales ==
    pc \in {"within", "interactions"} =>
    LET dates == { sales[q].sale_date : q \in 1..Len(sales) }
        first == CHOOSE m \in dates : \A o \in dates : m <= o
        last == CHOOSE m \in dates : \A o \in dates : o <= m
    IN  \A k \in 1..Len(sales) :
          k \notin rows
            <=> /\ window_sales
                /\ \/ sales[k].sale_date - first < windows[1] * 86400
                   \/ last - sales[k].sale_date < windows[2] * 86400

\* C11 witness: window_sales is true; the step has kept a sale dated exactly
\* before_days after the earliest sale and removed the earliest and the
\* latest sale.
C11_Witness ==
    /\ pc = "within"
    /\ window_sales
    /\ \E k \in rows : \A q \in 1..Len(sales) :
           sales[k].sale_date - sales[q].sale_date <= windows[1] * 86400
    /\ \E k \in rows : \E q \in 1..Len(sales) :
           sales[k].sale_date - sales[q].sale_date = windows[1] * 86400
    /\ \E k \in 1..Len(sales) : k \notin rows

\* C12: when trim_by_max_distance and add_interactions are true, every sale
\* of the returned table is matched, before or after, by at least one
\* homicide at a distance inside one of the bands, and the trimming step
\* drops no such sale: a matched sale is missing only if windowing or the
\* duplicate exclusion removed it.
C12_TrimByMaxDistance ==
    (pc = "done" /\ add_interactions /\ trim_by_max_distance) =>
    \A k \in 1..Len(sales) :
        LET E == IF distances[1] # 0 THEN <<0>> \o distances ELSE distances
            matched ==
                \E n \in 1..Len(homicides) :
                    LET dt == sales[k].time_offset - homicides[n].time_offset
                        d2 == (homicides[n].x - sales[k].x) * (homicides[n].x - sales[k].x)
                              + (homicides[n].y - sales[k].y) * (homicides[n].y - sales[k].y)
                    IN  /\ \/ (0 < dt /\ dt < windows[2] * 86400)
                           \/ ((0 - windows[1]) * 86400 < dt /\ dt < 0)
                        /\ \E j \in 1..(Len(E) - 1) :
                             /\ (264 * E[j]) * (264 * E[j]) <= d2
                             /\ d2 < (264 * E[j + 1]) * (264 * E[j + 1])
            dates == { sales[q].sale_date : q \in 1..Len(sales) }
            first == CHOOSE m \in dates : \A o \in dates : m <= o
            last == CHOOSE m \in dates : \A o \in dates : o <= m
            windowed == /\ window_sales
                        /\ \/ sales[k].sale_date < first + windows[1] * 86400
                           \/ sales[k].sale_date > last - windows[2] * 86400
            duplicate == /\ exclude_duplicates
                         /\ \E j \in 2..(Len(E) - 1) :
                              /\ flags[k][<<"before", E[j]>>] = 1
                              /\ flags[k][<<"after", E[j]>>] = 1
        IN  /\ k \in rows => matched
            /\ (matched /\ ~ windowed /\ ~ duplicate) => k \in rows

\* C12 witness: the table was trimmed without windowing; it holds a sale
\* matched only in the outermost of two bands and lacks a sale no homicide
\* matches.
C12_Witness ==
    /\ pc = "done"
    /\ add_interactions /\ trim_by_max_distance /\ ~ window_sales
    /\ distances = <<0, 1, 2>>
    /\ \E k \in rows :
         /\ within[k][2] = 1
         /\ within[k][1] = 0
    /\ \E k \in 1..Len(sales) :
         /\ k \notin rows
         /\ within[k][1] = 0
         /\ within[k][2] = 0

\* C15: the matcher yields one group per homicide, in the homicides' input
\* order (the n-th group carries index n-1 and is the group of the n-th
\* homicide), a homicide that matches no sale yields an empty group, and a
\* sale that satisfies the radius and time conditions of several homicides
\* is in the group of each of them. The count is that of a loop that has
\* run to its end; a call whose radius query raises yields no group.
C15_OneGroupPerEvent ==
    /\ Len(groups) = i
    /\ pc \in {"within", "interactions", "done"} => Len(groups) = Len(homicides)
    /\ pc = "ValueError" => (groups = <<>> /\ (sales = <<>> \/ homicides = <<>>))
    /\ \A n \in 1..Len(groups) :
         /\ groups[n].i = n - 1
         /\ \A k \in 1..Len(sales) :
              LET dt == sales[k].time_offset - homicides[n].time_offset
                  d2 == (homicides[n].x - sales[k].x) * (homicides[n].x - sales[k].x)
                        + (homicides[n].y - sales[k].y) * (homicides[n].y - sales[k].y)
                  r == 264 * SeqMax(<<0>> \o distances)
              IN  /\ k \in groups[n].indices.after
                       <=> (d2 <= r * r /\ 0 < dt /\ dt < windows[2] * 86400)
                  /\ k \in groups[n].indices.before
                       <=> (d2 <= r * r /\ (0 - windows[1]) * 86400 < dt /\ dt < 0)

\* C15 witness: the loop is over with three groups for three homicides; one
\* sale is in the 'after' set of the first two groups and the third group is
\* empty.
C15_Witness ==
    /\ pc = "within"
    /\ Len(homicides) = 3
    /\ Len(groups) = 3
    /\ \E k \in 1..Len(sales) :
         /\ k \in groups[1].indices.after
         /\ k \in groups[2].indices.after
    /\ groups[3].indices.after = {}
    /\ groups[3].indices.before = {}

----------------------------------------------------------------------------
(* Properties of the preconditions; specification SpecValidation *)

\* C13: add_spacetime_flags fails whenever the distances list is empty or
\* holds a negative boundary: once its first lines have run on such a list
\* the call has raised, and it goes no further.
C13_DistancesValidated ==
    (pc # "start"
       /\ (Len(distances) = 0 \/ \E j \in 1..Len(distances) : distances[j] < 0))
      => pc = "IndexError"

\* C14: when a row of the sales or of the homicides has no location, or
\* either table lacks the time_offset column, the matcher yields no group
\* and the call returns no table: the only step it takes at the head of the
\* loop is to fail with the assertion's error.
C14_MatcherAsserts ==
    [][ LET broken ==
                \/ \E k \in 1..Len(sales) : k \in geometry_isnull.sales
                \/ \E n \in 1..Len(homicides) : n \in geometry_isnull.homicides
                \/ "time_offset" \notin columns.sales
                \/ "time_offset" \notin columns.homicides
        IN  broken =>
              /\ groups' = <<>>
              /\ i' = 0
              /\ pc' \in {"IndexError", "loop", "AssertionError"}
              /\ pc = "loop" => pc' = "AssertionError" ]_vars

\* C14 witness: the call has failed with the assertion's error on a
\* homicide row without a location, with no group yielded, although a sale
\* lies within the radius and the time window of a homicide.
C14_Witness ==
    /\ pc = "AssertionError"
    /\ geometry_isnull.homicides # {}
    /\ geometry_isnull.sales = {}
    /\ columns.sales = {"time_offset"} /\ columns.homicides = {"time_offset"}
    /\ groups = <<>>
    /\ \E n \in 1..Len(homicides) : \E k \in 1..Len(sales) :
         /\ sales[k].time_offset - homicides[n].time_offset > 0
         /\ sales[k].time_offset - homicides[n].time_offset < windows[2] * 86400
         /\ (homicides[n].x - sales[k].x) * (homicides[n].x - sales[k].x)
            + (homicides[n].y - sales[k].y) * (homicides[n].y - sales[k].y)
              < 264 * 264

----------------------------------------------------------------------------
(* Properties of get_modeling_inputs; specification SpecModeling *)

\* C16: get_modeling_inputs leaves the list passed as use_features as it
\* was: at every point of the call the list holds the contents it held when
\* the call was made.
C16_ArgumentsUntouched ==
    use_features = use_features_passed

----------------------------------------------------------------------------
(* Properties of get_sale_price_psf_from_homicide; specification
   SpecDistance *)

\* C17: the distances are binned into nbins bins of equal width over
\* [0, radius]; the returned series have no entry for the final bin, and
\* every other bin that holds at least one matched pair has an entry, whose
\* count is the number of pairs in the bin.
C17_OnlyFinalBinOmitted ==
    pc_distance = "done" =>
    \A t \in DOMAIN binned :
        LET pairs == { p \in (1..Len(groups)) \X (1..Len(sales_valid)) \X Tags :
                         /\ p[2] \in groups[p[1]].indices[p[3]]
                         /\ t \in {"all", p[3]} }
            d2(p) == groups[p[1]].dists[p[3]][p[2]]
            inbin(b) == { p \in pairs :
                            /\ (264 * space_radius * (b - 1))
                                 * (264 * space_radius * (b - 1))
                                   <= d2(p) * nbins * nbins
                            /\ d2(p) * nbins * nbins
                                 < (264 * space_radius * b) * (264 * space_radius * b) }
        IN  /\ nbins \notin DOMAIN binned[t]
            /\ \A b \in 1..(nbins - 1) :
                 inbin(b) # {} =>
                   /\ b \in DOMAIN binned[t]
                   /\ binned[t][b].N = Cardinality(inbin(b))

\* C18 (as claimed): when a bin holds no matched pair, the returned series
\* still have an entry for it (with a NaN value), and the call, made on
\* tables that have rows, does not raise.
C18_EmptyBinReported ==
    /\ pc_distance = "ValueError" => (sales_valid = <<>> \/ homicides = <<>>)
    /\ pc_distance = "done" =>
         \A t \in DOMAIN binned : \A b \in 1..(nbins - 1) :
             b \in DOMAIN binned[t]

\* C18 (amended): the returned series have entries only for bins that hold
\* at least one matched pair, each with a count of at least 1 and values
\* computed from its pairs; a bin without a pair has no entry; the call
\* raises only when the homicides or the windowed sales have no row, never
\* because a bin is empty.
C18_EmptyBinAbsent ==
    /\ pc_distance = "ValueError" => (sales_valid = <<>> \/ homicides = <<>>)
    /\ pc_distance = "done" =>
         \A t \in DOMAIN binned : \A b \in DOMAIN binned[t] :
             LET pairs == { p \in (1..Len(groups)) \X (1..Len(sales_valid)) \X Tags :
                              /\ p[2] \in groups[p[1]].indices[p[3]]
                              /\ t \in {"all", p[3]}
                              /\ (264 * space_radius * (b - 1))
                                   * (264 * space_radius * (b - 1))
                                     <= groups[p[1]].dists[p[3]][p[2]] * nbins * nbins
                              /\ groups[p[1]].dists[p[3]][p[2]] * nbins * nbins
                                   < (264 * space_radius * b) * (264 * space_radius * b) }
             IN  /\ pairs # {}
                 /\ binned[t][b].N = Cardinality(pairs)
                 /\ binned[t][b].X.count = Cardinality(pairs)
                 /\ binned[t][b].X.sum * nbins
                      >= 264 * space_radius * (b - 1) * binned[t][b].N
                 /\ binned[t][b].X.sum * nbins
                      < 264 * space_radius * b * binned[t][b].N

\* C18 witness: the call has returned series with an entry for bin 2 and
\* none for bins 1 and 3, which hold no pair, the pairs lying in bins 2 and 4.
C18_Witness ==
    /\ pc_distance = "done"
    /\ ~ split_results
    /\ nbins = 4
    /\ DOMAIN binned["all"] = {2}
    /\ \E n \in 1..Len(groups) : \E k \in groups[n].indices.after :
           groups[n].dists.after[k] = 200 * 200

----------------------------------------------------------------------------
(* Properties of get_binned_pta_data; specification SpecPTA *)

\* C19 (as claimed): the bins have width bin_size, are anchored at offset 0
\* and cover exactly [-time_window, +time_window] days, no edge lying beyond
\* +/- time_window; the two halves have the same number of bins and bin
\* centers that are negatives of each other.
C19_BinsCoverWindow ==
    Len(pta_edges) = 2 =>
    LET after == pta_edges[1]
        before == pta_edges[2]
    IN  /\ after[1] = 0
        /\ before[Len(before)] = 0
        /\ after[Len(after)] = pta_window * 86400
        /\ before[1] = 0 - pta_window * 86400
        /\ \A h \in 1..2 : \A j \in 1..(Len(pta_edges[h]) - 1) :
               pta_edges[h][j + 1] - pta_edges[h][j] = bin_size * 86400
        /\ Len(after) = Len(before)
        /\ pc_pta = "done" =>
             \A j \in 1..(Len(after) - 1) :
                 out[1][j].bin_centers + out[1][2 * (Len(after) - 1) + 1 - j].bin_centers = 0

\* C19 (amended): the bins have width bin_size and are anchored at offset 0;
\* each half has ceil(time_window / bin_size) bins, so the bins cover
\* [-L, +L] with L the least multiple of bin_size that is at least
\* time_window: L = time_window when bin_size divides time_window, and
\* otherwise the outermost bin of each half extends beyond +/- time_window
\* by less than bin_size; the bin centers of the two halves are negatives
\* of each other.
C19_BinsCoverWindowRoundedUp ==
    Len(pta_edges) = 2 =>
    LET after == pta_edges[1]
        before == pta_edges[2]
        L == after[Len(after)]
    IN  /\ after[1] = 0
        /\ before[Len(before)] = 0
        /\ before[1] = 0 - L
        /\ L >= pta_window * 86400
        /\ L < (pta_window + bin_size) * 86400
        /\ (pta_window % bin_size = 0) => L = pta_window * 86400
        /\ \A h \in 1..2 : \A j \in 1..(Len(pta_edges[h]) - 1) :
               pta_edges[h][j + 1] - pta_edges[h][j] = bin_size * 86400
        /\ Len(after) = Len(before)
        /\ pc_pta = "done" =>
             /\ Len(out[1]) = 2 * (Len(after) - 1)
             /\ \A j \in 1..(Len(after) - 1) :
                  /\ out[1][j].bin_centers < 0
                  /\ out[1][j].bin_centers
                       + out[1][2 * (Len(after) - 1) + 1 - j].bin_centers = 0
                  /\ out[1][j].bin_centers * 86400 = before[j] + before[j + 1]

\* C19 witness: the call has returned for time_window = 3 and bin_size = 2;
\* the outermost bin ends at 4 days and counts a row whose offset is 4 days.
C19_Witness ==
    /\ pc_pta = "done"
    /\ pta_window = 3
    /\ bin_size = 2
    /\ pta_edges[1][Len(pta_edges[1])] = 4 * 86400
    /\ out[1][Len(out[1])].N = 1
    /\ \E n \in 1..Len(PTA) : PTA[n].time_offset = 4 * 86400

----------------------------------------------------------------------------
(* Properties of feature_engineer_sales; specification SpecEngineer *)

----------------------------------------------------------------------------
(* Properties of the order of the events and of the sides of a group *)

\* C28: while the groups are processed a flag that is 1 stays 1, and the
\* table add_spacetime_flags returns (its rows, its columns and every flag
\* value) is the table it returns on every permutation of the rows of the
\* homicide table.
C28_OrderIndependent ==
    [][ /\ \A k \in DOMAIN flags : \A c \in DOMAIN flags[k] :
             flags[k][c] = 1 => flags'[k][c] = 1
        /\ pc' = "done" =>
             \A p \in Reorderings(Len(homicides)) :
                 ReturnedTable([ n \in 1..Len(homicides) |-> homicides[p[n]] ],
                               sales, distances, windows, window_sales,
                               add_interactions, exclude_duplicates,
                               trim_by_max_distance)
                   = [ rows |-> rows',
                       cols |-> cols',
                       cells |-> [ k \in rows' |->
                                    [ c \in cols' |->
                                        IF c[1] = "within" THEN within'[k][c[2]]
                                        ELSE flags'[k][c] ] ] ] ]_vars

\* C28 witness: a table is returned in which a sale has the after flag of
\* two bands, set by two homicides at different places.
C28_Witness ==
    /\ pc = "done"
    /\ distances = <<0, 1, 2>>
    /\ ~ add_interactions
    /\ \E k \in rows :
         /\ flags[k][<<"after", 1>>] = 1
         /\ flags[k][<<"after", 2>>] = 1
         /\ \E n, m \in 1..Len(homicides) :
              /\ homicides[n].x # homicides[m].x
              /\ k \in groups[n].indices.after
              /\ k \in groups[m].indices.after

\* C29: in every group the 'before' and 'after' index sets are disjoint, and
\* a sale has both the before flag and the after flag of a band only when
\* two different homicides match it, one before and one after.
C29_SidesDisjoint ==
    /\ \A n \in 1..Len(groups) :
         groups[n].indices.before \cap groups[n].indices.after = {}
    /\ \A k \in DOMAIN flags : \A c \in DOMAIN flags[k] :
         (flags[k][<<"before", c[2]>>] = 1 /\ flags[k][<<"after", c[2]>>] = 1)
           => \E n, m \in 1..i :
                /\ n # m
                /\ sales[k].time_offset - homicides[n].time_offset < 0
                /\ sales[k].time_offset - homicides[m].time_offset > 0

\* C29 witness: a sale has both flags of a band, from a homicide after it
\* and a homicide before it.
C29_Witness ==
    /\ pc = "within"
    /\ \E k \in DOMAIN flags : \E d \in FlagDists(distances) :
         /\ flags[k][<<"before", d>>] = 1
         /\ flags[k][<<"after", d>>] = 1
         /\ \E n, m \in 1..Len(groups) :
              /\ k \in groups[n].indices.before
              /\ k \in groups[m].indices.after

----------------------------------------------------------------------------
(* Mirror symmetry of the time bins *)

\* C30: for a record at an offset +t and a record at the offset -t, with
\* 0 < t <= time_window days, each of the two is counted in exactly one bin
\* and the centers of the two bins are +c and -c; a record at the offset 0
\* is counted in no bin.
C30_MirrorSymmetry ==
    pc_pta = "done" =>
      /\ SeqSum([ j \in DOMAIN out[1] |-> out[1][j].N ])
           <= Cardinality({ n \in DOMAIN PTA : PTA[n].time_offset # 0 })
      /\ ( /\ Len(PTA) = 2
           /\ PTA[1].time_offset > 0
           /\ PTA[1].time_offset <= pta_window * 86400
           /\ PTA[2].time_offset = 0 - PTA[1].time_offset )
         => \E j, k \in DOMAIN out[1] :
              /\ out[1][j].N = 1
              /\ out[1][k].N = 1
              /\ out[1][j].bin_centers > 0
              /\ out[1][k].bin_centers = 0 - out[1][j].bin_centers
              /\ \A m \in DOMAIN out[1] \ { j, k } : out[1][m].N = 0

----------------------------------------------------------------------------
(* The cache protocol of Dataset.get *)

\* C27: a call invokes download iff fresh=True was passed or the directory
\* or the data file is missing; a call with fresh=False and the data file
\* present invokes no download and leaves the data file and meta.json as
\* they are; after a call that does not raise both files exist; when
\* download raises no data file is written and the next call with
\* fresh=False downloads again.
C27_CacheProtocol ==
    \A n \in 1..Len(calls) :
        LET c == calls[n] IN
        /\ c.invoked <=> (c.fresh \/ ~ c.dir_before \/ ~ c.file_before.exists)
        /\ (~ c.fresh /\ c.file_before.exists)
             => /\ ~ c.invoked
                /\ c.file_after = c.file_before
                /\ c.meta_after = c.meta_before
        /\ ~ c.raised => (c.file_after.exists /\ c.meta_after.exists)
        /\ c.raised
             => /\ c.file_after = c.file_before
                /\ (n < Len(calls) /\ ~ calls[n + 1].fresh)
                     => calls[n + 1].invoked

\* C27 (amended): as above, except that after a call that does not raise
\* the data file exists, and meta.json exists when the call downloaded or
\* meta.json was there before; and after a call in which download raised
\* the next call with fresh=False downloads exactly when no data file was
\* there before the failing call.
C27_CacheProtocolAmended ==
    \A n \in 1..Len(calls) :
        LET c == calls[n] IN
        /\ c.invoked <=> (c.fresh \/ ~ c.dir_before \/ ~ c.file_before.exists)
        /\ (~ c.fresh /\ c.file_before.exists)
             => /\ ~ c.invoked
                /\ c.file_after = c.file_before
                /\ c.meta_after = c.meta_before
        /\ ~ c.raised
             => /\ c.file_after.exists
                /\ c.meta_after.exists <=> (c.invoked \/ c.meta_before.exists)
                /\ c.invoked => (c.file_after.content = n
                                   /\ c.meta_after.content = n)
        /\ c.raised
             => /\ c.invoked
                /\ c.dir_after
                /\ c.file_after = c.file_before
                /\ c.meta_after = c.meta_before
                /\ (n < Len(calls) /\ ~ calls[n + 1].fresh)
                     => (calls[n + 1].invoked <=> ~ c.file_before.exists)

\* C27 witness: a download into an empty cache, then a fresh call whose
\* download raises, then a call with fresh=False that reads the data file
\* of the first call.
C27_Witness ==
    /\ Len(calls) = 3
    /\ ~ calls[1].dir_before /\ calls[1].invoked /\ ~ calls[1].raised
    /\ calls[2].fresh /\ calls[2].raised
    /\ ~ calls[3].fresh /\ ~ calls[3].invoked
    /\ data_file = File(TRUE, 1)

----------------------------------------------------------------------------
(* Repeated calls of feature_engineer_sales *)

----------------------------------------------------------------------------
(* The tables get_modeling_inputs returns *)

\* C22: get_modeling_inputs fails before any processing unless endog is in
\* REMOVE, and for an endog in REMOVE the returned Y holds, row by row, the
\* values the column endog has in the retained sales.
C22_ResponseReturned ==
    /\ endog \notin REMOVE
         => /\ pc_inputs \in {"assert", "AssertionError"}
            /\ frame = <<>>
            /\ use_features = use_features_passed
    /\ pc_inputs = "AssertionError" => endog \notin REMOVE
    /\ pc_inputs = "done"
         => /\ endog \in REMOVE
            /\ Y_out.values = [ k \in DOMAIN retained.rows |->
                                  retained.rows[k][endog] ]

\* C23: no column of the returned X is the column endog or made from it.
C23_NoResponseInX ==
    pc_inputs = "done"
      => \A j \in DOMAIN X_out.columns : X_out.columns[j].col # endog

\* C23 witness: X is returned for the response sale_year, with a numerical
\* column and an encoded column.
C23_Witness ==
    /\ pc_inputs = "done"
    /\ endog = "sale_year"
    /\ dropna
    /\ \E j \in DOMAIN X_out.columns : X_out.columns[j] = [ col |-> "depth", level |-> <<-1, 0>> ]
    /\ \E j \in DOMAIN X_out.columns : X_out.columns[j].col = "zoning"

\* C24: a categorical column that is not a flag, with k levels in the rows
\* that reach the encoding, gives k - 1 columns of X; a flag column gives
\* one column, the flag itself.
C24_OneHotLevels ==
    pc_inputs = "done"
      => \A c \in Range(encoded.cat_cols) :
           LET made == { j \in DOMAIN X_out.columns : X_out.columns[j].col = c }
           IN  IF c = "spacetime_flag_after_1"
               THEN /\ Cardinality(made) = 1
                    /\ \A j \in made : X_out.columns[j].level = <<-1, 0>>
               ELSE Cardinality(made) =
                      Cardinality({ retained.rows[k][c] :
                                      k \in DOMAIN retained.rows } \ { <<-1, 0>> }) - 1

\* C25: X and Y have as many rows as sales were retained, one row per
\* retained sale, in the order of the sales.
C25_RowCount ==
    pc_inputs = "done"
      => /\ Len(X_out.rows) = Len(Y_out.values)
         /\ Len(X_out.rows) = Len(retained.rows)
         /\ \A k \in DOMAIN X_out.rows :
              /\ X_out.rows[k].sale = retained.rows[k].sale
              /\ Y_out.rows[k] = retained.rows[k].sale

\* C26: with as_panel the index of X and of Y is (neighborhood, sale_year),
\* row by row the key of one and the same sale, and no column of X is
\* neighborhood, sale_year or made from them.
C26_PanelIndex ==
    (pc_inputs = "done" /\ as_panel)
      => /\ X_out.index = Y_out.index
         /\ Len(X_out.rows) = Len(Y_out.rows)
         /\ \A k \in DOMAIN X_out.rows :
              /\ X_out.rows[k].sale = Y_out.rows[k]
              /\ X_out.index[k] =
                   <<sales_in.rows[Y_out.rows[k]].neighborhood,
                     sales_in.rows[Y_out.rows[k]].sale_year>>
         /\ \A j \in DOMAIN X_out.columns :
              X_out.columns[j].col \notin {"neighborhood", "sale_year"}

\* C26 witness: a panel is returned for a use_features list that was passed
\* without neighborhood, with rows of different keys.
C26_Witness ==
    /\ pc_inputs = "done"
    /\ as_panel
    /\ use_features_passed.given
    /\ \A n \in DOMAIN use_features_passed.list :
         use_features_passed.list[n] # "neighborhood"
    /\ \E k, m \in DOMAIN X_out.index : X_out.index[k] # X_out.index[m]

====
